---- MODULE Spec2Model ----
(***************************************************************************)
(* Query admission pipeline of the MCP datasource server: the statement    *)
(* classifier (MySQLQueryValidator), the input schema validator, the       *)
(* in-memory rate limiter of the public handlers, result bounding, and the *)
(* queryMySQL tool that composes them.                                     *)
(*                                                                         *)
(* A JavaScript string is a sequence of one-character strings.             *)
(***************************************************************************)
EXTENDS Integers, Sequences, FiniteSets, TLC

VARIABLES
    query,      \* the statement handed to MySQLQueryValidator
    vpc,        \* "start" until validate has returned, then "validated"
    result,     \* the QueryValidationResult returned by validate
    canon,      \* successive results of sanitizeQuery, starting from query
    now,              \* Date.now(), in milliseconds
    rateLimitStore,   \* the Map from client address to {count, resetTime}
    lastCheck,        \* the latest checkRateLimit call: its address and its answer
    windowOpened,     \* per address, when the request that opened its window came
    requestsInWindow, \* per address, the requests made since then, that one included
    admittedAt,       \* per address followed and instant of the last 60 s, the
                      \* requests admitted then
    tpc,          \* "idle", "received" (a call has come in), "done" (it returned)
    args,         \* the arguments of the latest queryMySQL call
    env,          \* the database answer and the logging sink that call met
    inputVerdict, \* what InputValidator.validateMySQLQuery returned for them
    executed,     \* the texts that call handed to database.executeQuery
    rawRows,      \* the rows the database returned for the call, if it was asked
    trace,        \* the components the call invoked, in order
    response,     \* the MCPToolResponse of the call
    deployment,       \* which public handler is deployed: "connector" or "pool"
    inflight,         \* the requests of the public handler that wait for the database
    reply,            \* the latest response the public handler sent
    admittedInWindow, \* per address, the requests of its window that passed the limiter
    pool,         \* MySQLDatabase.pool: "null" or "open"
    manager,      \* DatabaseManager.mysqlDatabase: "null" or "set"
    cpc,          \* where connect or disconnect waits: "idle", "ping", "ending"
    lastConnect,  \* the latest connect(): "none", "pending", "succeeded", "failed"
    disconnected, \* disconnect() has been called since the latest connect()
    probe,        \* the latest executeQuery call since the latest connect() or
                  \* disconnect(): "none", "Database not connected", "asked"
    epc,          \* where the executeQuery call is: "idle", at an await, or ended
    timeoutArg,   \* the timeout argument of the call, in milliseconds
    elapsed,      \* the time since the call started, in milliseconds
    leased,       \* the pool connections the call holds
    dbResult      \* the rows the call returned

validatorVars == <<query, vpc, result, canon>>

rateVars ==
    <<now, rateLimitStore, lastCheck, windowOpened, requestsInWindow, admittedAt>>

toolVars == <<tpc, args, env, inputVerdict, executed, rawRows, trace, response>>

handlerVars == <<deployment, inflight, reply, admittedInWindow>>

connVars == <<manager, cpc, lastConnect, disconnected, probe>>

dbVars == <<pool, epc, timeoutArg, elapsed, leased, dbResult, connVars>>

vars == <<validatorVars, rateVars, toolVars, handlerVars, dbVars>>

----------------------------------------------------------------------------
(* Characters                                                              *)

\* Characters matched by the regular expression class \s (and stripped by trim).
WhiteSpace == {" ", "\t", "\n"}

LowerCase ==
    <<"a","b","c","d","e","f","g","h","i","j","k","l","m",
      "n","o","p","q","r","s","t","u","v","w","x","y","z">>

UpperCase ==
    <<"A","B","C","D","E","F","G","H","I","J","K","L","M",
      "N","O","P","Q","R","S","T","U","V","W","X","Y","Z">>

Digits == {"0","1","2","3","4","5","6","7","8","9"}

LowerSet == {LowerCase[i] : i \in 1..26}

UpperSet == {UpperCase[i] : i \in 1..26}

\* String.prototype.toUpperCase on one ASCII character.
UpperChar(c) ==
    IF c \in LowerSet
    THEN UpperCase[CHOOSE i \in 1..26 : LowerCase[i] = c]
    ELSE c

\* The regular expression class \w.
IsWordChar(c) == c \in LowerSet \cup UpperSet \cup Digits \cup {"_"}

IsSpace(c) == c \in WhiteSpace

----------------------------------------------------------------------------
(* String primitives                                                       *)

toUpperCase(s) == [i \in 1..Len(s) |-> UpperChar(s[i])]

\* Index of the first non-whitespace character, Len(s)+1 when there is none.
FirstNonSpace(s) ==
    IF \E i \in 1..Len(s) : ~IsSpace(s[i])
    THEN CHOOSE i \in 1..Len(s) :
            ~IsSpace(s[i]) /\ \A j \in 1..(i-1) : IsSpace(s[j])
    ELSE Len(s) + 1

\* Index of the last non-whitespace character, 0 when there is none.
LastNonSpace(s) ==
    IF \E i \in 1..Len(s) : ~IsSpace(s[i])
    THEN CHOOSE i \in 1..Len(s) :
            ~IsSpace(s[i]) /\ \A j \in (i+1)..Len(s) : IsSpace(s[j])
    ELSE 0

\* String.prototype.trim
trim(s) == SubSeq(s, FirstNonSpace(s), LastNonSpace(s))

\* s.startsWith(w) at offset i (1-based): w occurs in s starting at i.
OccursAt(s, i, w) ==
    /\ i >= 1
    /\ i + Len(w) - 1 <= Len(s)
    /\ \A k \in 1..Len(w) : s[i + k - 1] = w[k]

startsWith(s, w) == OccursAt(s, 1, w)

includes(s, w) == \E i \in 1..(Len(s) - Len(w) + 1) : OccursAt(s, i, w)

\* split(' ')[0] in place of split(/\s+/)[0]: only the space character separates.
FirstSplitToken_SpaceOnly(s) ==
    IF \E i \in 1..Len(s) : s[i] = " "
    THEN SubSeq(s, 1, (CHOOSE i \in 1..Len(s) :
                          s[i] = " " /\ \A j \in 1..(i-1) : s[j] # " ") - 1)
    ELSE s

\* s.split(/\s+/)[0]: the text before the first whitespace run.
FirstSplitToken(s) ==
    IF \E i \in 1..Len(s) : IsSpace(s[i])
    THEN SubSeq(s, 1, (CHOOSE i \in 1..Len(s) :
                          IsSpace(s[i]) /\ \A j \in 1..(i-1) : ~IsSpace(s[j])) - 1)
    ELSE s

\* /head\s*tail/i (minSpace = 0) or /head\s+tail/i (minSpace = 1) matches
\* somewhere in s; head and tail are given in upper case.
MatchesSpaced(s, head, minSpace, tail) ==
    LET u == toUpperCase(s) IN
    \E i \in 1..Len(s) :
        /\ OccursAt(u, i, head)
        /\ \E j \in (i + Len(head) + minSpace)..Len(s) :
              /\ \A k \in (i + Len(head))..(j - 1) : IsSpace(s[k])
              /\ OccursAt(u, j, tail)

\* The same pattern without the i flag.
MatchesFunctionCall_CaseSensitive(s, name) ==
    \E i \in 1..Len(s) :
        /\ OccursAt(s, i, name)
        /\ (i = 1 \/ ~IsWordChar(s[i - 1]))
        /\ \E j \in (i + Len(name))..Len(s) :
              /\ \A k \in (i + Len(name))..(j - 1) : IsSpace(s[k])
              /\ s[j] = "("

\* The same pattern without its \b.
MatchesFunctionCall_NoWordBoundary(s, name) ==
    LET u == toUpperCase(s) IN
    \E i \in 1..Len(s) :
        /\ OccursAt(u, i, name)
        /\ \E j \in (i + Len(name))..Len(s) :
              /\ \A k \in (i + Len(name))..(j - 1) : IsSpace(s[k])
              /\ s[j] = "("

\* /\bname\s*\(/i matches somewhere in s; name is given in upper case and
\* starts with a word character, so \b asks for a non-word character (or the
\* start of the text) before it.
MatchesFunctionCall(s, name) ==
    LET u == toUpperCase(s) IN
    \E i \in 1..Len(s) :
        /\ OccursAt(u, i, name)
        /\ (i = 1 \/ ~IsWordChar(s[i - 1]))
        /\ \E j \in (i + Len(name))..Len(s) :
              /\ \A k \in (i + Len(name))..(j - 1) : IsSpace(s[k])
              /\ s[j] = "("

----------------------------------------------------------------------------
(* MySQLQueryValidator: rule tables                                        *)

READONLY_KEYWORDS == {
    <<"S","E","L","E","C","T">>,
    <<"S","H","O","W">>,
    <<"D","E","S","C","R","I","B","E">>,
    <<"D","E","S","C">>,
    <<"E","X","P","L","A","I","N">>,
    <<"A","N","A","L","Y","Z","E">> }

FORBIDDEN_KEYWORDS == {
    <<"I","N","S","E","R","T">>,
    <<"U","P","D","A","T","E">>,
    <<"D","E","L","E","T","E">>,
    <<"D","R","O","P">>,
    <<"C","R","E","A","T","E">>,
    <<"A","L","T","E","R">>,
    <<"T","R","U","N","C","A","T","E">>,
    <<"R","E","P","L","A","C","E">>,
    <<"M","E","R","G","E">>,
    <<"C","A","L","L">>,
    <<"E","X","E","C","U","T","E">>,
    <<"G","R","A","N","T">>,
    <<"R","E","V","O","K","E">>,
    <<"L","O","C","K">>,
    <<"U","N","L","O","C","K">>,
    <<"S","E","T">>,
    <<"R","E","S","E","T">>,
    <<"S","T","A","R","T">>,
    <<"C","O","M","M","I","T">>,
    <<"R","O","L","L","B","A","C","K">>,
    <<"S","A","V","E","P","O","I","N","T">>,
    <<"L","O","A","D">>,
    <<"O","U","T","F","I","L","E">>,
    <<"I","N","F","I","L","E">>,
    <<"B","A","C","K","U","P">>,
    <<"R","E","S","T","O","R","E">> }

\* In insertion order, the order in which validate iterates over the set.
DANGEROUS_FUNCTIONS == <<
    <<"L","O","A","D","_","F","I","L","E">>,
    <<"I","N","T","O"," ","O","U","T","F","I","L","E">>,
    <<"I","N","T","O"," ","D","U","M","P","F","I","L","E">>,
    <<"S","Y","S","T","E","M">>,
    <<"B","E","N","C","H","M","A","R","K">>,
    <<"S","L","E","E","P">>,
    <<"G","E","T","_","L","O","C","K">>,
    <<"R","E","L","E","A","S","E","_","L","O","C","K">>,
    <<"C","O","N","N","E","C","T","I","O","N","_","I","D">>,
    <<"U","S","E","R">>,
    <<"C","U","R","R","E","N","T","_","U","S","E","R">>,
    <<"S","E","S","S","I","O","N","_","U","S","E","R">>,
    <<"S","Y","S","T","E","M","_","U","S","E","R">> >>

\* The value of an absent property.
Undefined == <<"undefined">>

\* Rejection reasons: the fixed text, and the interpolated name if any.
Reason(msg, arg) == [msg |-> msg, arg |-> arg]

EmptyReason == Reason("Query cannot be empty", <<>>)

InjectionReason == Reason("Query contains potential SQL injection patterns", <<>>)

OperationReason(kw) == Reason("Operation is not allowed (readonly access only)", kw)

NotReadonlyReason == Reason("Query must start with a readonly operation", <<>>)

FunctionReason(fn) == Reason("Function is not allowed", fn)

MultipleReason == Reason("Multiple statements are not allowed", <<>>)

StructureReason == Reason("Invalid SELECT query structure", <<>>)

----------------------------------------------------------------------------
(* MySQLQueryValidator: the rules                                          *)

\* The table without its ; pattern.
containsSQLInjectionPatterns_NoSeparator(q) ==
    \/ \/ includes(q, <<"'">>)
       \/ includes(q, <<"\\", "'">>)
       \/ includes(toUpperCase(q), <<"%","3","B">>)
       \/ includes(q, <<"-","-">>)
       \/ includes(q, <<"#">>)
       \/ includes(q, <<"/","*">>)
       \/ includes(q, <<"*","/">>)
    \/ MatchesSpaced(q, <<"U","N","I","O","N">>, 1, <<"S","E","L","E","C","T">>)
    \/ MatchesSpaced(q, <<"S","C","R","I","P","T">>, 0, <<">">>)
    \/ MatchesSpaced(q, <<"J","A","V","A","S","C","R","I","P","T">>, 0, <<":">>)
    \/ MatchesSpaced(q, <<"V","B","S","C","R","I","P","T">>, 0, <<":">>)
    \/ MatchesSpaced(q, <<"O","N","L","O","A","D">>, 0, <<"=">>)
    \/ MatchesSpaced(q, <<"O","N","E","R","R","O","R">>, 0, <<"=">>)
    \/ MatchesSpaced(q, <<"E","V","A","L">>, 0, <<"(">>)
    \/ MatchesSpaced(q, <<"E","X","P","R","E","S","S","I","O","N">>, 0, <<"(">>)

containsSQLInjectionPatterns(q) ==
    \/ \/ includes(q, <<"'">>)
       \/ includes(q, <<"\\", "'">>)
       \/ includes(q, <<";">>)
       \/ includes(toUpperCase(q), <<"%","3","B">>)
       \/ includes(q, <<"-","-">>)
       \/ includes(q, <<"#">>)
       \/ includes(q, <<"/","*">>)
       \/ includes(q, <<"*","/">>)
    \/ MatchesSpaced(q, <<"U","N","I","O","N">>, 1, <<"S","E","L","E","C","T">>)
    \/ MatchesSpaced(q, <<"S","C","R","I","P","T">>, 0, <<">">>)
    \/ MatchesSpaced(q, <<"J","A","V","A","S","C","R","I","P","T">>, 0, <<":">>)
    \/ MatchesSpaced(q, <<"V","B","S","C","R","I","P","T">>, 0, <<":">>)
    \/ MatchesSpaced(q, <<"O","N","L","O","A","D">>, 0, <<"=">>)
    \/ MatchesSpaced(q, <<"O","N","E","R","R","O","R">>, 0, <<"=">>)
    \/ MatchesSpaced(q, <<"E","V","A","L">>, 0, <<"(">>)
    \/ MatchesSpaced(q, <<"E","X","P","R","E","S","S","I","O","N">>, 0, <<"(">>)

\* query.split(';'): the pieces between separators, as (first, last) index
\* pairs; a piece counts when it has a non-whitespace character.
SeparatorPositions(q) == {i \in 1..Len(q) : q[i] = ";"}

PieceStarts(q) == {1} \cup {i + 1 : i \in SeparatorPositions(q)}

PieceEnd(q, from) ==
    IF \E i \in SeparatorPositions(q) : i >= from
    THEN (CHOOSE i \in SeparatorPositions(q) :
             i >= from /\ \A j \in SeparatorPositions(q) : j >= from => i <= j) - 1
    ELSE Len(q)

\* Without the filter: every piece counts, blank or not.
containsMultipleStatements_NoFilter(q) == Cardinality(PieceStarts(q)) > 1

containsMultipleStatements(q) ==
    LET statements == {from \in PieceStarts(q) :
                          Len(trim(SubSeq(q, from, PieceEnd(q, from)))) > 0}
    IN  Cardinality(statements) > 1

\* The character class [\w\s,\(\)\*\+\-\/] of the simple-expression pattern.
InSimpleClass(c) ==
    IsWordChar(c) \/ IsSpace(c) \/ c \in {",", "(", ")", "*", "+", "-", "/"}

\* (\s+AS\s+\w+)?\s*$ from index j of u.
SimpleExpressionTail(u, j) ==
    LET n == Len(u) IN
    \/ \A k \in j..n : IsSpace(u[k])
    \/ \E a \in (j + 1)..n :
          /\ \A k \in j..(a - 1) : IsSpace(u[k])
          /\ OccursAt(u, a, <<"A","S">>)
          /\ \E w \in (a + 3)..n :
                /\ \A k \in (a + 2)..(w - 1) : IsSpace(u[k])
                /\ \E e \in (w + 1)..(n + 1) :
                      /\ \A k \in w..(e - 1) : IsWordChar(u[k])
                      /\ \A k \in e..n : IsSpace(u[k])

\* /^SELECT\s+[\w\s,\(\)\*\+\-\/]+(\s+AS\s+\w+)?\s*$/i
isSimpleExpression(q) ==
    LET u == toUpperCase(q)
        n == Len(u)
    IN  /\ OccursAt(u, 1, <<"S","E","L","E","C","T">>)
        /\ \E i \in 8..n :
              /\ \A k \in 7..(i - 1) : IsSpace(u[k])
              /\ \E j \in (i + 1)..(n + 1) :
                    /\ \A k \in i..(j - 1) : InSimpleClass(u[k])
                    /\ SimpleExpressionTail(u, j)

\* Called with the trimmed, upper-cased text.
hasValidSelectStructure(q) ==
    IF /\ ~startsWith(q, <<"S","E","L","E","C","T">>)
       /\ ~startsWith(q, <<"S","H","O","W">>)
       /\ ~startsWith(q, <<"D","E","S","C","R","I","B","E">>)
       /\ ~startsWith(q, <<"D","E","S","C">>)
       /\ ~startsWith(q, <<"E","X","P","L","A","I","N">>)
       /\ ~startsWith(q, <<"A","N","A","L","Y","Z","E">>)
    THEN FALSE
    ELSE IF startsWith(q, <<"S","E","L","E","C","T">>)
         THEN LET hasFromClause == includes(q, <<"F","R","O","M">>)
                  hasDualTable == includes(q, <<"D","U","A","L">>)
              IN  ~(~hasFromClause /\ ~hasDualTable /\ ~isSimpleExpression(q))
         ELSE TRUE

\* .replace(/\s+/g, ' ')
RECURSIVE CollapseFrom(_, _)
CollapseFrom(s, i) ==
    IF i > Len(s) THEN <<>>
    ELSE IF IsSpace(s[i])
         THEN IF i > 1 /\ IsSpace(s[i - 1])
              THEN CollapseFrom(s, i + 1)
              ELSE <<" ">> \o CollapseFrom(s, i + 1)
         ELSE <<s[i]>> \o CollapseFrom(s, i + 1)

collapseWhitespace(s) == CollapseFrom(s, 1)

\* .replace(/;+$/, '')
stripTrailingSeparators(s) ==
    IF \E i \in 1..Len(s) : s[i] # ";"
    THEN SubSeq(s, 1, CHOOSE i \in 1..Len(s) :
                         s[i] # ";" /\ \A j \in (i + 1)..Len(s) : s[j] = ";")
    ELSE <<>>

\* The canonical text built from the upper-cased copy.
sanitizeQuery_FromUpperCasedCopy(q) ==
    stripTrailingSeparators(collapseWhitespace(toUpperCase(trim(q))))

sanitizeQuery(q) == stripTrailingSeparators(collapseWhitespace(trim(q)))

----------------------------------------------------------------------------
(* MySQLQueryValidator.validate                                            *)

\* Lines 33-36: the injection-pattern scan.
InjectionRule(q) ==
    IF containsSQLInjectionPatterns(q) THEN <<InjectionReason>> ELSE <<>>

\* Lines 38-42: the first keyword against the forbidden set.
ForbiddenRule(firstKeyword) ==
    IF firstKeyword \in FORBIDDEN_KEYWORDS
    THEN <<OperationReason(firstKeyword)>>
    ELSE <<>>

ReadonlyRule_BlacklistOnly(firstKeyword) == <<>>

\* Lines 44-48: a first keyword that is neither readonly nor forbidden.
ReadonlyRule(firstKeyword) ==
    IF firstKeyword \notin READONLY_KEYWORDS /\ firstKeyword \notin FORBIDDEN_KEYWORDS
    THEN <<NotReadonlyReason>>
    ELSE <<>>

\* Lines 50-58: the loop over DANGEROUS_FUNCTIONS, from its i-th element on.
RECURSIVE FunctionReasonsFrom(_, _)
FunctionReasonsFrom(q, i) ==
    IF i > Len(DANGEROUS_FUNCTIONS) THEN <<>>
    ELSE (IF MatchesFunctionCall(q, DANGEROUS_FUNCTIONS[i])
          THEN <<FunctionReason(DANGEROUS_FUNCTIONS[i])>>
          ELSE <<>>) \o FunctionReasonsFrom(q, i + 1)

FunctionRule(q) == FunctionReasonsFrom(q, 1)

\* Lines 60-63.
MultipleRule(q) ==
    IF containsMultipleStatements(q) THEN <<MultipleReason>> ELSE <<>>

\* Lines 65-68: the shape check, on the trimmed upper-cased text.
StructureRule(isReadonly, trimmedQuery) ==
    IF isReadonly /\ ~hasValidSelectStructure(trimmedQuery)
    THEN <<StructureReason>>
    ELSE <<>>

ValidationResult_AlwaysSanitized(isReadonly, errors, q) ==
    [isValid |-> Len(errors) = 0,
     isReadonly |-> isReadonly,
     errors |-> errors,
     sanitizedQuery |-> sanitizeQuery(q)]

\* Lines 70-77: the verdict returned for a non-empty statement.
ValidationResult(isReadonly, errors, q) ==
    [isValid |-> Len(errors) = 0,
     isReadonly |-> isReadonly,
     errors |-> errors,
     sanitizedQuery |-> IF Len(errors) = 0 THEN sanitizeQuery(q) ELSE Undefined]

\* Lines 25-31: the verdict returned for an empty statement.
EmptyResult ==
    [isValid |-> FALSE, isReadonly |-> FALSE,
     errors |-> <<EmptyReason>>, sanitizedQuery |-> Undefined]

\* errors.push in program order, except that the first reason found ends the scan.
RECURSIVE FirstNonEmpty(_)
FirstNonEmpty(lists) ==
    IF lists = <<>> THEN <<>>
    ELSE IF Head(lists) # <<>> THEN <<Head(Head(lists))>>
    ELSE FirstNonEmpty(Tail(lists))

validate_FirstErrorOnly(q) ==
    LET trimmedQuery == toUpperCase(trim(q)) IN
    IF Len(trimmedQuery) = 0 THEN EmptyResult
    ELSE
    LET firstKeyword == FirstSplitToken(trimmedQuery)
        isReadonly == firstKeyword \in READONLY_KEYWORDS
        errors == FirstNonEmpty(<<
            InjectionRule(q), ForbiddenRule(firstKeyword), ReadonlyRule(firstKeyword),
            FunctionRule(q), MultipleRule(q), StructureRule(isReadonly, trimmedQuery) >>)
    IN  ValidationResult(isReadonly, errors, q)

validate(q) ==
    LET trimmedQuery == toUpperCase(trim(q)) IN
    IF Len(trimmedQuery) = 0 THEN EmptyResult
    ELSE
    LET firstKeyword == FirstSplitToken(trimmedQuery)
        isReadonly == firstKeyword \in READONLY_KEYWORDS
        errors ==
               InjectionRule(q)
            \o ForbiddenRule(firstKeyword)
            \o ReadonlyRule(firstKeyword)
            \o FunctionRule(q)
            \o MultipleRule(q)
            \o StructureRule(isReadonly, trimmedQuery)
    IN  ValidationResult(isReadonly, errors, q)

----------------------------------------------------------------------------
(* Statements given to the validator                                       *)

\* Longest statement body, in fragments.
MaxFrags == 3

Fragments == {
    <<"S","E","L","E","C","T">>,
    <<"d","r","o","p">>,
    <<"S","L","E","E","P">>,
    <<"F","R","O","M">>,
    <<"x">>, <<"1">>, <<"(">>, <<";">>, <<"'">>, <<"=">>,
    <<" ">>, <<"\t">> }

Heads == { <<>>, <<"S","E","L","E","C","T"," ">> }

Scenarios == {
    <<"S","E","L","E","C","T"," ","*"," ","F","R","O","M"," ","u","s","e","r","s",
      " ","L","I","M","I","T"," ","1","0">>,
    <<"D","R","O","P"," ","T","A","B","L","E"," ","u","s","e","r","s">>,
    <<"S","E","L","E","C","T"," ","*"," ","F","R","O","M"," ","u","s","e","r","s",
      ";"," ","D","R","O","P"," ","T","A","B","L","E"," ","u","s","e","r","s">>,
    <<"S","E","L","E","C","T"," ","S","L","E","E","P","(","1","0",")">>,
    <<"s","e","l","e","c","t"," ","S","l","e","e","p"," ","(","1",")",";",
      "s","e","l","e","c","t"," ","u","s","e","r","(",")">>,
    <<" "," ","s","e","l","e","c","T","\t"," ","*"," "," ","F","r","o","m","\n",
      "U","s","e","r","s"," ","l","i","m","i","t"," ","1","0"," ">> }

RECURSIVE Flatten(_)
Flatten(fs) == IF fs = <<>> THEN <<>> ELSE Head(fs) \o Flatten(Tail(fs))

FragmentSeqs == UNION {[1..n -> Fragments] : n \in 0..MaxFrags}

Statements == Scenarios \cup {h \o Flatten(fs) : h \in Heads, fs \in FragmentSeqs}

NoResult ==
    [isValid |-> FALSE, isReadonly |-> FALSE, errors |-> <<>>,
     sanitizedQuery |-> Undefined]

----------------------------------------------------------------------------
(* The rate limiter of the public handlers                                 *)

\* RATE_LIMIT
windowMs == 60 * 1000

maxRequests == 10

\* Client addresses.
IPs == {"10.0.0.1", "10.0.0.2"}

\* Windows of time followed, and the requests followed within one window.
MaxWindows == 2

MaxBurst == 12

\* The instants at which Date.now() is read.
Instants == {w * windowMs + o : w \in 0..MaxWindows, o \in {0, 1, windowMs \div 2}}

NoCheck == [ip |-> "", ok |-> FALSE]

\* rateLimitStore.set(ip, entry)
MapSet(store, ip, entry) ==
    [k \in DOMAIN store \cup {ip} |-> IF k = ip THEN entry ELSE store[k]]

\* The window is taken as expired from resetTime on, not only after it.
checkRateLimit_ExpiresAtReset(store, ip, t) ==
    IF ip \notin DOMAIN store \/ t >= store[ip].resetTime
    THEN [ok |-> TRUE,
          store |-> MapSet(store, ip, [count |-> 1, resetTime |-> t + windowMs])]
    ELSE IF store[ip].count >= maxRequests
    THEN [ok |-> FALSE, store |-> store]
    ELSE [ok |-> TRUE,
          store |-> MapSet(store, ip, [count |-> store[ip].count + 1,
                                       resetTime |-> store[ip].resetTime])]

\* The count of an open window is written back as it was read.
checkRateLimit_CountNotWritten(store, ip, t) ==
    IF ip \notin DOMAIN store \/ t > store[ip].resetTime
    THEN [ok |-> TRUE,
          store |-> MapSet(store, ip, [count |-> 1, resetTime |-> t + windowMs])]
    ELSE IF store[ip].count >= maxRequests
    THEN [ok |-> FALSE, store |-> store]
    ELSE [ok |-> TRUE, store |-> store]

\* A rejected request starts the window of its address again.
checkRateLimit_RejectionExtendsWindow(store, ip, t) ==
    IF ip \notin DOMAIN store \/ t > store[ip].resetTime
    THEN [ok |-> TRUE,
          store |-> MapSet(store, ip, [count |-> 1, resetTime |-> t + windowMs])]
    ELSE IF store[ip].count >= maxRequests
    THEN [ok |-> FALSE,
          store |-> MapSet(store, ip, [count |-> store[ip].count,
                                       resetTime |-> t + windowMs])]
    ELSE [ok |-> TRUE,
          store |-> MapSet(store, ip, [count |-> store[ip].count + 1,
                                       resetTime |-> store[ip].resetTime])]

\* checkRateLimit(ip) at time t: its answer and the store it leaves.
checkRateLimit(store, ip, t) ==
    IF ip \notin DOMAIN store \/ t > store[ip].resetTime
    THEN [ok |-> TRUE,
          store |-> MapSet(store, ip, [count |-> 1, resetTime |-> t + windowMs])]
    ELSE IF store[ip].count >= maxRequests
    THEN [ok |-> FALSE, store |-> store]
    ELSE [ok |-> TRUE,
          store |-> MapSet(store, ip, [count |-> store[ip].count + 1,
                                       resetTime |-> store[ip].resetTime])]

\* The admissions of the addresses that are followed instant by instant,
\* after a request of address ip was answered ok at time t.
Admitted(history, ip, t, ok) ==
    IF ip \in DOMAIN history /\ ok
    THEN [history EXCEPT ![ip][t] = @ + 1]
    ELSE history

\* At time t the admissions made windowMs ago or earlier are forgotten: no
\* interval of windowMs holds one of them together with an admission to come.
Forget(history, t) ==
    [ip \in DOMAIN history |->
        [u \in Instants |-> IF u > t - windowMs THEN history[ip][u] ELSE 0]]

RateIdle ==
    /\ now = 0
    /\ rateLimitStore = <<>>
    /\ lastCheck = NoCheck
    /\ windowOpened = [ip \in IPs |-> -1]
    /\ requestsInWindow = [ip \in IPs |-> 0]
    /\ admittedAt = <<>>

ValidatorIdle ==
    /\ query = <<>>
    /\ vpc = "start"
    /\ result = NoResult
    /\ canon = <<>>

----------------------------------------------------------------------------
(* InputValidator.validateMySQLQuery (mysqlQuerySchema)                    *)

\* A property of the payload: absent, a string, or a number.
Absent == [kind |-> "absent", text |-> <<>>, val |-> 0]

Str(s) == [kind |-> "string", text |-> s, val |-> 0]

Num(n) == [kind |-> "number", text |-> <<>>, val |-> n]

\* The number n + 1/2.
Half(n) == [kind |-> "half", text |-> <<>>, val |-> n]

\* mysqlQuerySchema.query
queryErrors(q) ==
    IF q.kind = "absent" THEN <<"\"query\" is required">>
    ELSE IF q.kind # "string" THEN <<"\"query\" must be a string">>
    ELSE IF Len(q.text) = 0 THEN <<"Query cannot be empty">>
    ELSE (IF Len(q.text) > 10000
          THEN <<"Query too long (max 10000 characters)">> ELSE <<>>)
      \o (IF \E i \in 1..Len(q.text) : q.text[i] \in {"<", ">", "{", "}"}
          THEN <<"Query contains invalid characters">> ELSE <<>>)

\* x < n and x > n for a number x (an integer, or an integer and a half)
\* and an integer n.
below(x, n) == x.val < n

above(x, n) == IF x.kind = "half" THEN x.val >= n ELSE x.val > n

IsNumber(x) == x.kind \in {"number", "half"}

IntegerErrors(x, key) ==
    IF x.kind = "half" THEN <<"\"" \o key \o "\" must be an integer">> ELSE <<>>

\* The upper end of the range is not checked.
limitErrors_NoMax(l) ==
    IF l.kind = "absent" THEN <<>>
    ELSE IF ~IsNumber(l) THEN <<"\"limit\" must be a number">>
    ELSE IntegerErrors(l, "limit")
      \o (IF below(l, 1) THEN <<"Limit must be at least 1">> ELSE <<>>)

\* mysqlQuerySchema.limit
limitErrors(l) ==
    IF l.kind = "absent" THEN <<>>
    ELSE IF ~IsNumber(l) THEN <<"\"limit\" must be a number">>
    ELSE IntegerErrors(l, "limit")
      \o (IF below(l, 1) THEN <<"Limit must be at least 1">> ELSE <<>>)
      \o (IF above(l, 1000) THEN <<"Limit cannot exceed 1000">> ELSE <<>>)

\* mysqlQuerySchema.timeout
timeoutErrors(x) ==
    IF x.kind = "absent" THEN <<>>
    ELSE IF ~IsNumber(x) THEN <<"\"timeout\" must be a number">>
    ELSE IntegerErrors(x, "timeout")
      \o (IF below(x, 1000) THEN <<"Timeout must be at least 1000ms">> ELSE <<>>)
      \o (IF above(x, 30000) THEN <<"Timeout cannot exceed 30000ms">> ELSE <<>>)

\* The reasons of mysqlQuerySchema for an object, key by key.
schemaErrors(input) ==
    queryErrors(input.query) \o limitErrors(input.limit) \o timeoutErrors(input.timeout)

\* With abortEarly the first reason ends the validation.
validateMySQLQuery_AbortEarly(input) ==
    IF input.shape = "undefined"
    THEN [isValid |-> TRUE, data |-> Undefined, errors |-> <<>>]
    ELSE IF input.shape # "object"
    THEN [isValid |-> FALSE, data |-> Undefined,
          errors |-> <<"\"value\" must be of type object">>]
    ELSE IF schemaErrors(input) # <<>>
    THEN [isValid |-> FALSE, data |-> Undefined,
          errors |-> <<Head(schemaErrors(input))>>]
    ELSE [isValid |-> TRUE,
          data |-> [query |-> input.query.text,
                    limit |-> IF input.limit.kind = "absent"
                              THEN 100 ELSE input.limit.val,
                    timeout |-> IF input.timeout.kind = "absent"
                                THEN 30000 ELSE input.timeout.val],
          errors |-> <<>>]

\* mysqlQuerySchema.validate(input, {abortEarly: false, stripUnknown: true}):
\* an undefined input satisfies a schema that is not required, and comes
\* back as it is; any other input that is not an object is refused as such.
validateMySQLQuery(input) ==
    IF input.shape = "undefined"
    THEN [isValid |-> TRUE, data |-> Undefined, errors |-> <<>>]
    ELSE IF input.shape # "object"
    THEN [isValid |-> FALSE, data |-> Undefined,
          errors |-> <<"\"value\" must be of type object">>]
    ELSE IF schemaErrors(input) # <<>>
    THEN [isValid |-> FALSE, data |-> Undefined, errors |-> schemaErrors(input)]
    ELSE [isValid |-> TRUE,
          data |-> [query |-> input.query.text,
                    limit |-> IF input.limit.kind = "absent"
                              THEN 100 ELSE input.limit.val,
                    timeout |-> IF input.timeout.kind = "absent"
                                THEN 30000 ELSE input.timeout.val],
          errors |-> <<>>]

----------------------------------------------------------------------------
(* MySQLTools.queryMySQL                                                   *)

\* Most rows the database returns for one query.
MaxRows == 4

\* The rows of a result set, told apart by their position only.
Rows(n) == [i \in 1..n |-> i]

\* What database.executeQuery does when asked: rows, or a thrown error.
DbOutcomes ==
    {[kind |-> "rows", rows |-> Rows(n)] : n \in 0..MaxRows}
        \cup {[kind |-> "error", rows |-> <<>>]}

\* A text of 10001 characters, the last of them one the schema refuses.
Ten(t) == t \o t \o t \o t \o t \o t \o t \o t \o t \o t

LongText == Ten(Ten(Ten(Ten(<<"a">>)))) \o <<"<">>

QueryInputs == {
    Absent, Num(42), Str(<<>>), Str(<<"<">>),
    Str(<<"S","E","L","E","C","T"," ","1">>),
    Str(<<"S","E","L","E","C","T"," "," ","1"," ">>),
    Str(<<"S","E","L","E","C","T"," ","*"," ","F","R","O","M"," ","u","s","e","r","s",
          " ","L","I","M","I","T"," ","1","0">>),
    Str(<<"D","R","O","P"," ","T","A","B","L","E"," ","u","s","e","r","s">>) }

LimitInputs ==
    {Absent, Str(<<"a">>), Half(0), Half(2), Half(1000)}
        \cup {Num(n) : n \in {-1, 0, 1, 2, 3, 1000, 1001, 5000}}

TimeoutInputs ==
    {Absent, Half(999)} \cup {Num(n) : n \in {999, 1000, 30000, 30001}}

\* An argument of the given shape with no field set; undefined, null and a
\* string are arguments that are no objects.
NoFields(shape) ==
    [shape |-> shape, query |-> Absent, limit |-> Absent, timeout |-> Absent]

Payloads ==
    [shape : {"object"}, query : QueryInputs, limit : LimitInputs,
     timeout : TimeoutInputs]
        \cup [shape : {"object"}, query : {Str(LongText)},
              limit : {Num(5000)}, timeout : {Absent, Num(999)}]
        \cup {NoFields(shape) : shape \in {"undefined", "null", "string"}}

\* The calls one run makes to the logging sink, in their order: TRUE for a
\* call that returns, FALSE for one that throws.  A run makes three at most.
SinkBehaviours == [1..3 -> BOOLEAN]

SinkWorks == [k \in 1..3 |-> TRUE]

Failure(error, reasons) ==
    [success |-> FALSE, error |-> error, reasons |-> reasons,
     results |-> <<>>, rowCount |-> 0, query |-> Undefined,
     limit |-> 0, timeout |-> 0, truncated |-> FALSE, threw |-> FALSE]

\* The call returns no response: its promise is rejected.
Thrown == [Failure("", <<>>) EXCEPT !.threw = TRUE]

\* results.slice(0, limit) for an integer limit: a negative limit counts from
\* the end of the rows.
slice(rows, limit) ==
    SubSeq(rows, 1, IF limit < 0
                    THEN (IF Len(rows) + limit > 0 THEN Len(rows) + limit ELSE 0)
                    ELSE (IF limit < Len(rows) THEN limit ELSE Len(rows)))

\* Lines 64-84: the limit applied to the rows, and the response built.
Success(rows, data, sanitizedQuery) ==
    LET results == IF Len(rows) > data.limit THEN slice(rows, data.limit) ELSE rows
    IN  [success |-> TRUE, error |-> "", reasons |-> <<>>,
         results |-> results, rowCount |-> Len(results), query |-> sanitizedQuery,
         limit |-> data.limit, timeout |-> data.timeout,
         truncated |-> Len(results) = data.limit, threw |-> FALSE]

\* SecurityLogger.logQueryAttempt(args.query || '', ...) reads query.substring,
\* which a number does not have.
LogQueryAttemptThrows(a) == a.query.kind = "number" /\ a.query.val # 0

\* database.executeQuery as queryMySQL sees it, the database answering db:
\* the rows are logged before they are returned, and a throw of that call
\* lands in the catch block, which logs again and throws its own error.
executeQuery(db, sink) ==
    IF db.kind = "rows" /\ sink[1]
    THEN [kind |-> "rows", rows |-> db.rows, logged |-> 1]
    ELSE [kind |-> "error", rows |-> <<>>,
          logged |-> IF db.kind = "rows" THEN 2 ELSE 1]

\* The catch block of queryMySQL, its logging call being the k-th of the
\* run: JSON.stringify(undefined) is undefined and has no substring.
catchBlock(a, sink, k, message) ==
    IF a.shape = "undefined" \/ ~sink[k]
    THEN Thrown
    ELSE Failure("Query execution failed", message)

\* The raw query is handed to the database.
textToExecute_Raw(rawQuery, queryValidation) == rawQuery

\* Line 62: database.executeQuery(queryValidation.sanitizedQuery!, [], timeout)
textToExecute(rawQuery, queryValidation) == queryValidation.sanitizedQuery

\* queryMySQL(a) with the database answering db if asked and the logging
\* sink behaving as sink says: the response, with the verdict of the input
\* validator, the components invoked, the texts handed to executeQuery and
\* the rows the database gave.
queryMySQL(a, db, sink) ==
    LET validation == validateMySQLQuery(a)
        At(stages, texts, rows, resp) ==
            [inputVerdict |-> validation, executed |-> texts, rawRows |-> rows,
             trace |-> stages, response |-> resp]
    IN
    IF ~validation.isValid
    THEN At(<<"InputValidator">>, <<>>, <<>>,
            IF a.shape = "null"
            THEN catchBlock(a, sink, 1, <<"Cannot read properties of null">>)
            ELSE IF LogQueryAttemptThrows(a)
            THEN catchBlock(a, sink, 1, <<"query.substring is not a function">>)
            ELSE IF ~sink[1]
            THEN catchBlock(a, sink, 2, <<"logging failed">>)
            ELSE Failure("Input validation failed", validation.errors))
    ELSE IF a.shape = "undefined"
    THEN \* validation.data is undefined, and cannot be destructured
         At(<<"InputValidator">>, <<>>, <<>>,
            catchBlock(a, sink, 1, <<"Cannot destructure">>))
    ELSE
    LET queryValidation == validate(validation.data.query) IN
    IF ~queryValidation.isValid
    THEN At(<<"InputValidator", "MySQLQueryValidator">>, <<>>, <<>>,
            IF ~sink[1]
            THEN catchBlock(a, sink, 2, <<"logging failed">>)
            ELSE Failure("Query validation failed", queryValidation.errors))
    ELSE IF ~queryValidation.isReadonly
    THEN At(<<"InputValidator", "MySQLQueryValidator">>, <<>>, <<>>,
            IF ~sink[1]
            THEN catchBlock(a, sink, 2, <<"logging failed">>)
            ELSE Failure("Only readonly queries are allowed", <<>>))
    ELSE
    LET outcome == executeQuery(db, sink) IN
    IF outcome.kind = "error"
    THEN At(<<"InputValidator", "MySQLQueryValidator", "executeQuery">>,
            <<textToExecute(validation.data.query, queryValidation)>>, db.rows,
            catchBlock(a, sink, outcome.logged + 1, <<>>))
    ELSE At(<<"InputValidator", "MySQLQueryValidator", "executeQuery">>,
            <<textToExecute(validation.data.query, queryValidation)>>, db.rows,
            IF ~sink[2]
            THEN catchBlock(a, sink, 3, <<"logging failed">>)
            ELSE Success(db.rows, validation.data, queryValidation.sanitizedQuery))

----------------------------------------------------------------------------
(* The public handlers: arguments, whitelist and result bounding           *)

\* Two handlers are published: api/mcp-connector.ts, which opens a connection
\* per request through the Cloud SQL connector, and the one that keeps a
\* connection pool.
Deployments == {"connector", "pool"}

\* The value NaN.
NaN == [kind |-> "nan", text |-> <<>>, val |-> 0]

\* ToBoolean, as || applies it to args?.limit and ! to query.
isTruthy(x) ==
    CASE x.kind = "absent" -> FALSE
      [] x.kind = "string" -> Len(x.text) > 0
      [] x.kind = "number" -> x.val # 0
      [] x.kind = "half"   -> TRUE
      [] OTHER             -> FALSE

\* ToNumber of a string: the strings given as limits are not numerals.
toNumber(x) == IF x.kind = "string" THEN NaN ELSE x

\* Math.min(x, 100)
mathMin100(x) ==
    LET v == toNumber(x) IN
    CASE v.kind = "number" -> Num(IF v.val < 100 THEN v.val ELSE 100)
      [] v.kind = "half"   -> IF v.val >= 100 THEN Num(100) ELSE v
      [] OTHER             -> NaN

\* Math.min(args?.limit || 50, 100)
limitArgument(l) == mathMin100(IF isTruthy(l) THEN l ELSE Num(50))

\* ToIntegerOrInfinity, as Array.prototype.slice applies it to its end.
toIntegerOrInfinity(x) ==
    CASE x.kind = "number" -> x.val
      [] x.kind = "half"   -> IF x.val >= 0 THEN x.val ELSE x.val + 1
      [] OTHER             -> 0

\* n > x and n === x for an integer n and a number x.
greaterThan(n, x) ==
    CASE x.kind = "number" -> n > x.val
      [] x.kind = "half"   -> n > x.val
      [] OTHER             -> FALSE

strictEquals(n, x) == x.kind = "number" /\ n = x.val

IsDigit(c) == c \in Digits

\* The character class . of a pattern without the s flag.
IsDot(c) == c \notin {"\n", "\r"}

\* The character classes \d and \w of the patterns.
InClass(class, c) == IF class = "d" THEN IsDigit(c) ELSE IsWordChar(c)

\* The rest of u after prefix is one or more characters, each in the class.
PrefixThenClass(u, prefix, class) ==
    /\ startsWith(u, prefix)
    /\ Len(u) > Len(prefix)
    /\ \A k \in (Len(prefix) + 1)..Len(u) : InClass(class, u[k])

\* / FROM \w+ LIMIT \d+$/ matches u from index i to its end.
FromLimitTail(u, i) ==
    LET n == Len(u) IN
    \E j \in (i + 7)..n :
        /\ OccursAt(u, i, <<" ","F","R","O","M"," ">>)
        /\ \A k \in (i + 6)..(j - 1) : IsWordChar(u[k])
        /\ OccursAt(u, j, <<" ","L","I","M","I","T"," ">>)
        /\ j + 7 <= n
        /\ \A k \in (j + 7)..n : IsDigit(u[k])

\* /^SELECT \* FROM \w+ LIMIT \d+$/
MatchesSelectStarFromLimit(u) ==
    startsWith(u, <<"S","E","L","E","C","T"," ","*">>) /\ FromLimitTail(u, 9)

\* /^SELECT .+ FROM \w+ LIMIT \d+$/
MatchesSelectAnyFromLimit(u) ==
    /\ startsWith(u, <<"S","E","L","E","C","T"," ">>)
    /\ \E i \in 9..Len(u) :
          /\ \A k \in 8..(i - 1) : IsDot(u[k])
          /\ FromLimitTail(u, i)

\* allowedPatterns.some(pattern => pattern.test(trimmed)); /^SELECT 1$/ and
\* /^SELECT \d+$/ are in the list of api/mcp-connector.ts only.
isAllowed(dep, trimmed) ==
    \/ trimmed = <<"S","H","O","W"," ","T","A","B","L","E","S">>
    \/ trimmed = <<"S","H","O","W"," ","D","A","T","A","B","A","S","E","S">>
    \/ dep = "connector" /\ trimmed = <<"S","E","L","E","C","T"," ","1">>
    \/ dep = "connector"
         /\ PrefixThenClass(trimmed, <<"S","E","L","E","C","T"," ">>, "d")
    \/ MatchesSelectStarFromLimit(trimmed)
    \/ MatchesSelectAnyFromLimit(trimmed)
    \/ PrefixThenClass(trimmed, <<"D","E","S","C","R","I","B","E"," ">>, "w")
    \/ PrefixThenClass(trimmed, <<"D","E","S","C"," ">>, "w")
    \/ PrefixThenClass(trimmed,
           <<"S","H","O","W"," ","C","O","L","U","M","N","S"," ","F","R","O","M"," ">>,
           "w")

\* A request to a public handler, as far as the handler reads it.
PublicRequest(method, route, name, q, l, authorized) ==
    [method |-> method, route |-> route, name |-> name,
     query |-> q, limit |-> l, authorized |-> authorized]

ShowTables == Str(<<"S","H","O","W"," ","T","A","B","L","E","S">>)

PublicQueries == {
    Absent, Num(42), ShowTables,
    Str(<<"S","E","L","E","C","T"," ","1">>),
    Str(<<" ","s","e","l","e","c","t"," ","*"," ","f","r","o","m"," ",
          "u","s","e","r","s"," ","l","i","m","i","t"," ","5"," ">>),
    Str(<<"D","R","O","P"," ","T","A","B","L","E"," ","u","s","e","r","s">>),
    Str(<<"S","E","L","E","C","T"," ","1",";","D","R","O","P"," ",
          "T","A","B","L","E"," ","a"," ","F","R","O","M"," ","b"," ",
          "L","I","M","I","T"," ","1">>) }

PublicLimits == {Absent, Num(0), Num(-1), Half(0), Num(150), Str(<<"a">>)}

PublicRequests ==
    { PublicRequest("OPTIONS", "call", "", Absent, Absent, TRUE),
      PublicRequest("GET", "health", "", Absent, Absent, TRUE),
      PublicRequest("GET", "health", "", Absent, Absent, FALSE),
      PublicRequest("GET", "tools", "", Absent, Absent, TRUE),
      PublicRequest("GET", "other", "", Absent, Absent, TRUE),
      PublicRequest("POST", "call", "health_check", Absent, Absent, TRUE),
      PublicRequest("POST", "call", "unknown_tool", Absent, Absent, TRUE) }
    \cup { PublicRequest("POST", "call", "query_database", q, Absent, TRUE) :
               q \in PublicQueries }
    \cup { PublicRequest("POST", "call", "query_database", ShowTables, l, TRUE) :
               l \in PublicLimits }

\* The requests followed when several are served at once.
OverlappingRequests ==
    { PublicRequest("GET", "tools", "", Absent, Absent, TRUE),
      PublicRequest("GET", "health", "", Absent, Absent, TRUE),
      PublicRequest("POST", "call", "query_database", ShowTables, Absent, TRUE) }

\* The address whose requests are followed.
PublicClients == {"10.0.0.1"}

\* Row counts of the result sets the database gives the public handlers.
PublicRowCounts == {0, 50, 51, 102}

\* What the database does when a public handler asks it.
PublicDbOutcomes ==
    {[kind |-> "rows", rows |-> Rows(n)] : n \in PublicRowCounts}
        \cup {[kind |-> "error", rows |-> <<>>]}

\* What the handler has done for a request when it stops running: it has sent
\* a response (sent), or it waits for a connection on one of its paths.
Sent(status, error, retryAfter, stages) ==
    [sent |-> TRUE, status |-> status, error |-> error, retryAfter |-> retryAfter,
     trace |-> stages, path |-> "", limit |-> NaN]

Awaits(path, limit, stages) ==
    [sent |-> FALSE, status |-> 0, error |-> "", retryAfter |-> Absent,
     trace |-> stages, path |-> path, limit |-> limit]

NotAllowed ==
    "Query not allowed. Only basic SELECT, SHOW, and DESCRIBE queries are permitted."

\* The query_database branch up to the first await of executeSafeQuery.
queryDatabase(dep, r, stages) ==
    LET limit == limitArgument(r.limit)
        checked == stages \o <<"argumentsCheck">>
    IN  IF dep = "connector" /\ (~isTruthy(r.query) \/ r.query.kind # "string")
        THEN Sent(200, "Query parameter is required and must be a string",
                  Absent, checked)
        ELSE IF dep = "pool" /\ ~isTruthy(r.query)
        THEN Sent(200, "Query parameter is required", Absent, checked)
        ELSE IF r.query.kind # "string"
        THEN Sent(200, "query.trim is not a function", Absent, checked)
        ELSE IF ~isAllowed(dep, toUpperCase(trim(r.query.text)))
        THEN Sent(200, NotAllowed, Absent, checked \o <<"allowedPatterns">>)
        ELSE Awaits("query_database", limit, checked \o <<"allowedPatterns">>)

\* The handler from the answer of checkRateLimit (admitted) to its first
\* await or its response.
handler(dep, r, admitted) ==
    LET gate == <<"checkRateLimit">>
        auth == <<"checkRateLimit", "authenticateRequest">>
    IN  IF ~admitted
        THEN Sent(429, "Rate limit exceeded",
                  IF dep = "pool" THEN Num(60) ELSE Absent, gate)
        ELSE IF ~r.authorized
        THEN Sent(401, IF dep = "pool" THEN "Unauthorized"
                       ELSE "Authentication required", Absent, auth)
        ELSE IF r.route = "health"
        THEN (IF dep = "connector" THEN Awaits("health", NaN, auth)
              ELSE Sent(200, "", Absent, auth))
        ELSE IF r.route = "tools" THEN Sent(200, "", Absent, auth)
        ELSE IF r.route = "call" /\ r.method = "POST"
        THEN (IF r.name = "health_check"
              THEN (IF dep = "connector" THEN Awaits("health_check", NaN, auth)
                    ELSE Sent(200, "", Absent, auth))
              ELSE IF r.name = "query_database" THEN queryDatabase(dep, r, auth)
              ELSE IF dep = "connector" THEN Sent(404, "Tool not found", Absent, auth)
              ELSE Sent(400, "Unknown tool", Absent, auth))
        ELSE Sent(404, "Not found", Absent, auth)

\* executeSafeQuery from the rows on: the rows returned and the truncated flag.
\* api/mcp-connector.ts slices always and compares the raw length; the pool
\* handler slices when there are more rows than the limit and compares the
\* sliced length.
boundResults(dep, rows, limit) ==
    IF dep = "connector"
    THEN [results |-> slice(rows, toIntegerOrInfinity(limit)),
          truncated |-> greaterThan(Len(rows), limit)]
    ELSE LET results == IF greaterThan(Len(rows), limit)
                        THEN slice(rows, toIntegerOrInfinity(limit))
                        ELSE rows
         IN  [results |-> results, truncated |-> strictEquals(Len(results), limit)]

\* A response of a public handler, with what led to it.
Reply(ip, r, status, error, retryAfter, results, truncated, stages, opened, closed) ==
    [ip |-> ip, limit |-> r.limit, status |-> status, error |-> error,
     retryAfter |-> retryAfter, results |-> results, truncated |-> truncated,
     trace |-> stages, opened |-> opened, closed |-> closed]

NoRequest == PublicRequest("", "", "", Absent, Absent, FALSE)

NoReply == Reply("", NoRequest, 0, "", Absent, <<>>, FALSE, <<>>, 0, 0)

\* A request waiting for the database: where it waits, what it has done so
\* far, the connections it has opened and closed, and, once the query has
\* run, the bounded result or the failure it will report.
Waiting(pc, ip, r, path, limit, stages, opened, closed, results, truncated, failed) ==
    [pc |-> pc, ip |-> ip, request |-> r, path |-> path, limit |-> limit,
     trace |-> stages, opened |-> opened, closed |-> closed,
     results |-> results, truncated |-> truncated, failed |-> failed]

NoneWaiting == Waiting("idle", "", NoRequest, "", NaN, <<>>, 0, 0, <<>>, FALSE, FALSE)

\* Requests that wait for the database at the same time.
MaxInFlight == 2

HandlerIdle ==
    /\ deployment = "connector"
    /\ inflight = [s \in 1..1 |-> NoneWaiting]
    /\ reply = NoReply
    /\ admittedInWindow = [ip \in IPs |-> 0]

----------------------------------------------------------------------------
(* MySQLDatabase.executeQuery                                              *)

\* The timeouts queryMySQL passes on: values mysqlQuerySchema lets through.
Timeouts == {1000, 15000, 30000}

\* The time between two looks at the clock, in milliseconds.
ClockStep == 1000

\* The longest wait followed, in clock steps.
MaxWait == 32

DbIdle ==
    /\ pool = "null"
    /\ manager = "null"
    /\ cpc = "idle"
    /\ lastConnect = "none"
    /\ disconnected = FALSE
    /\ probe = "none"
    /\ epc = "idle"
    /\ timeoutArg = 30000
    /\ elapsed = 0
    /\ leased = 0
    /\ dbResult = <<>>

----------------------------------------------------------------------------
(* MySQLTools.queryMySQL, call by call                                     *)

NoVerdict == [isValid |-> FALSE, data |-> Undefined, errors |-> <<>>]

\* What the call met: the answer of the database and the logging sink.
NoEnvironment == [db |-> [kind |-> "error", rows |-> <<>>], sink |-> SinkWorks]

ToolsIdle ==
    /\ tpc = "idle"
    /\ args = NoFields("object")
    /\ env = NoEnvironment
    /\ inputVerdict = NoVerdict
    /\ executed = <<>>
    /\ rawRows = <<>>
    /\ trace = <<>>
    /\ response = Failure("", <<>>)

InitTools == ValidatorIdle /\ RateIdle /\ ToolsIdle /\ HandlerIdle /\ DbIdle

\* A caller invokes the tool with arguments a.
Receive(a) ==
    /\ tpc = "idle"
    /\ tpc' = "received"
    /\ args' = a
    /\ env' = NoEnvironment
    /\ inputVerdict' = NoVerdict
    /\ executed' = <<>>
    /\ rawRows' = <<>>
    /\ trace' = <<>>
    /\ response' = Failure("", <<>>)
    /\ UNCHANGED <<validatorVars, rateVars, handlerVars, dbVars>>

\* The call runs, from its arguments to its response; the database answers
\* db if it is asked, and the logging sink behaves as sink says.
QueryMySQL(db, sink) ==
    LET call == queryMySQL(args, db, sink) IN
    /\ tpc = "received"
    /\ tpc' = "done"
    /\ env' = [db |-> db, sink |-> sink]
    /\ inputVerdict' = call.inputVerdict
    /\ executed' = call.executed
    /\ rawRows' = call.rawRows
    /\ trace' = call.trace
    /\ response' = call.response
    /\ UNCHANGED args
    /\ UNCHANGED <<validatorVars, rateVars, handlerVars, dbVars>>

\* The caller takes the response, or the error thrown at it.
Return ==
    /\ tpc = "done"
    /\ tpc' = "idle"
    /\ args' = NoFields("object")
    /\ env' = NoEnvironment
    /\ inputVerdict' = NoVerdict
    /\ executed' = <<>>
    /\ rawRows' = <<>>
    /\ trace' = <<>>
    /\ response' = Failure("", <<>>)
    /\ UNCHANGED <<validatorVars, rateVars, handlerVars, dbVars>>

NextTools ==
    \/ \E a \in Payloads : Receive(a)
    \/ Return
    \/ \E db \in DbOutcomes, sink \in SinkBehaviours : QueryMySQL(db, sink)

SpecTools == InitTools /\ [][NextTools]_vars

----------------------------------------------------------------------------
(* The rate limiter under requests arriving over time                      *)

InitRateLimit == ValidatorIdle /\ RateIdle /\ ToolsIdle /\ HandlerIdle /\ DbIdle

\* Time passes.
Tick ==
    /\ \E t \in Instants :
          /\ t > now
          /\ now' = t
          /\ admittedAt' = Forget(admittedAt, t)
    /\ UNCHANGED <<rateLimitStore, lastCheck, windowOpened, requestsInWindow>>
    /\ UNCHANGED <<validatorVars, toolVars, handlerVars, dbVars>>

\* A request of address ip reaches the handler, which calls checkRateLimit.
\* windowOpened and requestsInWindow follow the windows as the requests define
\* them: a request opens a window when the address has none or its window,
\* windowMs long, is over.
CheckRateLimit(ip) ==
    LET opens == windowOpened[ip] < 0 \/ now > windowOpened[ip] + windowMs
        made  == IF opens THEN 1 ELSE requestsInWindow[ip] + 1
        call  == checkRateLimit(rateLimitStore, ip, now)
    IN  /\ made <= MaxBurst
        /\ rateLimitStore' = call.store
        /\ lastCheck' = [ip |-> ip, ok |-> call.ok]
        /\ windowOpened' = [windowOpened EXCEPT ![ip] = IF opens THEN now ELSE @]
        /\ requestsInWindow' = [requestsInWindow EXCEPT ![ip] = made]
        /\ admittedAt' = Admitted(admittedAt, ip, now, call.ok)
        /\ UNCHANGED now
        /\ UNCHANGED <<validatorVars, toolVars, handlerVars, dbVars>>

NextRateLimit == Tick \/ \E ip \in IPs : CheckRateLimit(ip)

SpecRateLimit == InitRateLimit /\ [][NextRateLimit]_vars

\* The same limiter, the admissions of one address followed instant by
\* instant.
FollowedClients == {"10.0.0.1"}

InitInterval ==
    /\ ValidatorIdle /\ ToolsIdle /\ HandlerIdle /\ DbIdle
    /\ now = 0
    /\ rateLimitStore = <<>>
    /\ lastCheck = NoCheck
    /\ windowOpened = [ip \in IPs |-> -1]
    /\ requestsInWindow = [ip \in IPs |-> 0]
    /\ admittedAt = [ip \in FollowedClients |-> [t \in Instants |-> 0]]

NextInterval == Tick \/ \E ip \in FollowedClients : CheckRateLimit(ip)

SpecInterval == InitInterval /\ [][NextInterval]_vars

----------------------------------------------------------------------------
(* A public handler serving requests that overlap, within one window of    *)
(* the limiter. A handler runs without interruption from the arrival of    *)
(* its request to its first await, and from one await to the next.         *)

Slots == DOMAIN inflight

InitHandler ==
    /\ ValidatorIdle /\ RateIdle /\ ToolsIdle /\ DbIdle
    /\ deployment \in Deployments
    /\ inflight = [s \in 1..1 |-> NoneWaiting]
    /\ reply = NoReply
    /\ admittedInWindow = [ip \in IPs |-> 0]

\* An OPTIONS request is answered before the limiter is reached: by the cors
\* middleware of api/mcp-connector.ts, by the first lines of the pool handler.
Preflight(ip, r) ==
    /\ r.method = "OPTIONS"
    /\ reply' = Reply(ip, r, IF deployment = "pool" THEN 200 ELSE 204, "", Absent,
                      <<>>, FALSE, <<>>, 0, 0)
    /\ UNCHANGED <<deployment, inflight, admittedInWindow>>
    /\ UNCHANGED <<validatorVars, rateVars, toolVars, dbVars>>

\* A request of address ip arrives and its handler runs to its response or
\* to its first await. windowOpened, requestsInWindow and admittedInWindow
\* follow the window of the address as its requests define it.
Request(ip, r) ==
    LET opens == windowOpened[ip] < 0 \/ now > windowOpened[ip] + windowMs
        made  == IF opens THEN 1 ELSE requestsInWindow[ip] + 1
        call  == checkRateLimit(rateLimitStore, ip, now)
        h     == handler(deployment, r, call.ok)
        free  == {s \in Slots : inflight[s].pc = "idle"}
        slot  == CHOOSE s \in free : \A t \in free : s <= t
    IN  /\ r.method # "OPTIONS"
        /\ made <= MaxBurst
        /\ h.sent \/ free # {}
        /\ rateLimitStore' = call.store
        /\ lastCheck' = [ip |-> ip, ok |-> call.ok]
        /\ windowOpened' = [windowOpened EXCEPT ![ip] = IF opens THEN now ELSE @]
        /\ requestsInWindow' = [requestsInWindow EXCEPT ![ip] = made]
        /\ admittedAt' = Admitted(admittedAt, ip, now, call.ok)
        /\ admittedInWindow' =
              [admittedInWindow EXCEPT
                  ![ip] = (IF opens THEN 0 ELSE @) + (IF call.ok THEN 1 ELSE 0)]
        /\ IF h.sent
           THEN /\ reply' = Reply(ip, r, h.status, h.error, h.retryAfter,
                                  <<>>, FALSE, h.trace, 0, 0)
                /\ UNCHANGED inflight
           ELSE /\ inflight' = [inflight EXCEPT ![slot] =
                      Waiting("connecting", ip, r, h.path, h.limit, h.trace,
                              0, 0, <<>>, FALSE, FALSE)]
                /\ UNCHANGED reply
        /\ UNCHANGED <<now, deployment>>
        /\ UNCHANGED <<validatorVars, toolVars, dbVars>>

\* The response to a request whose database work failed: the health action
\* answers 500, the tools answer 200 with the error in the content.
FailureReply(w, error, stages, opened, closed) ==
    Reply(w.ip, w.request, IF w.path = "health" THEN 500 ELSE 200, error, Absent,
          <<>>, FALSE, stages, opened, closed)

\* await createConnection() / await dbPool.getConnection() returns or throws.
Connect(s, connected) ==
    LET w == inflight[s] IN
    /\ w.pc = "connecting"
    /\ IF connected
       THEN /\ inflight' = [inflight EXCEPT ![s] =
                  [w EXCEPT !.pc = "executing", !.opened = @ + 1,
                            !.trace = @ \o <<"connect">>]]
            /\ UNCHANGED reply
       ELSE /\ reply' = FailureReply(w, "Database connection failed",
                                     w.trace, w.opened, w.closed)
            /\ inflight' = [inflight EXCEPT ![s] = NoneWaiting]
    /\ UNCHANGED <<deployment, admittedInWindow>>
    /\ UNCHANGED <<validatorVars, rateVars, toolVars, dbVars>>

\* await connection.execute(...) returns rows or throws. The health paths of
\* api/mcp-connector.ts end the connection after the query, outside any
\* finally; executeSafeQuery ends or releases it in a finally, and release()
\* of the pool handler does not wait.
Execute(s, db) ==
    LET w == inflight[s]
        stages == w.trace \o <<"execute">>
        bounded == boundResults(deployment, db.rows, w.limit)
    IN  /\ w.pc = "executing"
        /\ IF w.path # "query_database"
           THEN IF db.kind = "rows"
                THEN /\ inflight' = [inflight EXCEPT ![s] =
                           [w EXCEPT !.pc = "closing", !.trace = stages]]
                     /\ UNCHANGED reply
                ELSE /\ reply' = FailureReply(w, "Query failed", stages,
                                              w.opened, w.closed)
                     /\ inflight' = [inflight EXCEPT ![s] = NoneWaiting]
           ELSE IF deployment = "connector"
                THEN /\ inflight' = [inflight EXCEPT ![s] =
                           IF db.kind = "rows"
                           THEN [w EXCEPT !.pc = "closing",
                                          !.trace = stages \o <<"slice">>,
                                          !.results = bounded.results,
                                          !.truncated = bounded.truncated]
                           ELSE [w EXCEPT !.pc = "closing", !.trace = stages,
                                          !.failed = TRUE]]
                     /\ UNCHANGED reply
                ELSE /\ reply' =
                           IF db.kind = "rows"
                           THEN Reply(w.ip, w.request, 200, "", Absent,
                                      bounded.results, bounded.truncated,
                                      stages \o <<"slice", "close">>,
                                      w.opened, w.closed + 1)
                           ELSE FailureReply(w, "Query failed",
                                             stages \o <<"close">>,
                                             w.opened, w.closed + 1)
                     /\ inflight' = [inflight EXCEPT ![s] = NoneWaiting]
        /\ UNCHANGED <<deployment, admittedInWindow>>
        /\ UNCHANGED <<validatorVars, rateVars, toolVars, dbVars>>

\* await connection.end() returns, and the response is sent.
Close(s) ==
    LET w == inflight[s]
        stages == w.trace \o <<"close">>
    IN  /\ w.pc = "closing"
        /\ reply' = IF w.failed
                    THEN FailureReply(w, "Query failed", stages,
                                      w.opened, w.closed + 1)
                    ELSE Reply(w.ip, w.request, 200, "", Absent, w.results,
                               w.truncated, stages, w.opened, w.closed + 1)
        /\ inflight' = [inflight EXCEPT ![s] = NoneWaiting]
        /\ UNCHANGED <<deployment, admittedInWindow>>
        /\ UNCHANGED <<validatorVars, rateVars, toolVars, dbVars>>

\* One address, every kind of request, one request at the database at a time.
NextHandler ==
    \/ \E ip \in PublicClients, r \in PublicRequests : Preflight(ip, r)
    \/ \E ip \in PublicClients, r \in PublicRequests : Request(ip, r)
    \/ \E s \in Slots, connected \in BOOLEAN : Connect(s, connected)
    \/ \E s \in Slots, db \in PublicDbOutcomes : Execute(s, db)
    \/ \E s \in Slots : Close(s)

SpecHandler == InitHandler /\ [][NextHandler]_vars

\* One address, a few kinds of request, up to MaxInFlight requests at the
\* database at a time.
InitOverlap ==
    /\ ValidatorIdle /\ RateIdle /\ ToolsIdle /\ DbIdle
    /\ deployment \in Deployments
    /\ inflight = [s \in 1..MaxInFlight |-> NoneWaiting]
    /\ reply = NoReply
    /\ admittedInWindow = [ip \in IPs |-> 0]

NextOverlap ==
    \/ \E ip \in PublicClients, r \in OverlappingRequests : Request(ip, r)
    \/ \E s \in Slots, connected \in BOOLEAN : Connect(s, connected)
    \/ \E s \in Slots, db \in {d \in PublicDbOutcomes : Len(d.rows) = 0} :
          Execute(s, db)
    \/ \E s \in Slots : Close(s)

SpecOverlap == InitOverlap /\ [][NextOverlap]_vars

----------------------------------------------------------------------------
(* executeQuery against a database that answers when it pleases            *)

InitExecute ==
    /\ ValidatorIdle /\ RateIdle /\ ToolsIdle /\ HandlerIdle
    /\ pool \in {"null", "open"}
    /\ manager = "set"
    /\ cpc = "idle"
    /\ lastConnect = (IF pool = "open" THEN "succeeded" ELSE "none")
    /\ disconnected = FALSE
    /\ probe = "none"
    /\ epc = "idle"
    /\ timeoutArg = 30000
    /\ elapsed = 0
    /\ leased = 0
    /\ dbResult = <<>>

Pending == epc \in {"getConnection", "execute"}

\* executeQuery(query, params, t) is called and runs to its first await.
ExecuteQuery(t) ==
    /\ ~Pending
    /\ manager = "set"
    /\ timeoutArg' = t
    /\ elapsed' = 0
    /\ dbResult' = <<>>
    /\ epc' = IF pool = "null" THEN "thrown" ELSE "getConnection"
    /\ probe' = IF pool = "null" THEN "Database not connected" ELSE "asked"
    /\ UNCHANGED <<pool, leased, manager, cpc, lastConnect, disconnected>>
    /\ UNCHANGED <<validatorVars, rateVars, toolVars, handlerVars>>

\* await this.pool.getConnection() returns a connection or throws.
GetConnection(granted) ==
    /\ epc = "getConnection"
    /\ IF granted
       THEN epc' = "execute" /\ leased' = leased + 1
       ELSE epc' = "thrown" /\ UNCHANGED leased
    /\ UNCHANGED <<pool, timeoutArg, elapsed, dbResult, connVars>>
    /\ UNCHANGED <<validatorVars, rateVars, toolVars, handlerVars>>

\* await connection.execute(query, params) returns rows or throws; the
\* finally block releases the connection.
Answer(db) ==
    /\ epc = "execute"
    /\ IF db.kind = "rows"
       THEN epc' = "returned" /\ dbResult' = db.rows
       ELSE epc' = "thrown" /\ UNCHANGED dbResult
    /\ leased' = leased - 1
    /\ UNCHANGED <<pool, timeoutArg, elapsed, connVars>>
    /\ UNCHANGED <<validatorVars, rateVars, toolVars, handlerVars>>

\* Time passes while the call waits. Nothing in executeQuery reads the
\* timeout argument or starts a timer.
Clock ==
    /\ Pending
    /\ elapsed < MaxWait * ClockStep
    /\ elapsed' = elapsed + ClockStep
    /\ UNCHANGED <<pool, epc, timeoutArg, leased, dbResult, connVars>>
    /\ UNCHANGED <<validatorVars, rateVars, toolVars, handlerVars>>

NextExecute ==
    \/ \E t \in Timeouts : ExecuteQuery(t)
    \/ \E granted \in BOOLEAN : GetConnection(granted)
    \/ \E db \in DbOutcomes : Answer(db)
    \/ Clock

\* Time does pass; whether the pool and the database answer is up to them.
SpecExecute == InitExecute /\ [][NextExecute]_vars /\ WF_vars(Clock)

----------------------------------------------------------------------------
(* MySQLDatabase and DatabaseManager: connect, disconnect, initializeMySQL, *)
(* one call after the other                                                *)

InitConnection ==
    ValidatorIdle /\ RateIdle /\ ToolsIdle /\ HandlerIdle /\ DbIdle

\* connect() up to its first await: mysql.createPool builds the pool, unless
\* an SSL file cannot be read, and the pool is assigned before it is tested.
connect(created) ==
    /\ disconnected' = FALSE
    /\ probe' = "none"
    /\ IF created
       THEN /\ cpc' = "ping"
            /\ lastConnect' = "pending"
       ELSE /\ cpc' = "idle"
            /\ lastConnect' = "failed"

\* databaseManager.initializeMySQL(): with a complete configuration, a new
\* MySQLDatabase, its pool null, takes the place of the old one, and
\* connect() is called on it.
InitializeMySQL(complete, created) ==
    /\ cpc = "idle"
    /\ ~Pending
    /\ IF complete
       THEN /\ manager' = "set"
            /\ pool' = IF created THEN "open" ELSE "null"
            /\ connect(created)
       ELSE UNCHANGED <<manager, pool, cpc, lastConnect, disconnected, probe>>
    /\ UNCHANGED <<epc, timeoutArg, elapsed, leased, dbResult>>
    /\ UNCHANGED <<validatorVars, rateVars, toolVars, handlerVars>>

\* connect() called again on the database the manager holds.
Reconnect(created) ==
    /\ cpc = "idle"
    /\ ~Pending
    /\ manager = "set"
    /\ pool' = IF created THEN "open" ELSE pool
    /\ connect(created)
    /\ UNCHANGED <<manager, epc, timeoutArg, elapsed, leased, dbResult>>
    /\ UNCHANGED <<validatorVars, rateVars, toolVars, handlerVars>>

\* The test of the new pool, getConnection and ping, succeeds or throws; the
\* catch block logs and throws, the pool stays assigned.
Ping(ok) ==
    /\ cpc = "ping"
    /\ cpc' = "idle"
    /\ lastConnect' = IF ok THEN "succeeded" ELSE "failed"
    /\ UNCHANGED <<pool, manager, disconnected, probe>>
    /\ UNCHANGED <<epc, timeoutArg, elapsed, leased, dbResult>>
    /\ UNCHANGED <<validatorVars, rateVars, toolVars, handlerVars>>

\* disconnect() up to its await: with a pool, pool.end() is awaited.
Disconnect ==
    /\ cpc = "idle"
    /\ ~Pending
    /\ manager = "set"
    /\ disconnected' = TRUE
    /\ probe' = "none"
    /\ cpc' = IF pool = "null" THEN "idle" ELSE "ending"
    /\ UNCHANGED <<pool, manager, lastConnect>>
    /\ UNCHANGED <<epc, timeoutArg, elapsed, leased, dbResult>>
    /\ UNCHANGED <<validatorVars, rateVars, toolVars, handlerVars>>

\* pool.end() returns, and the pool is set to null, or throws.
EndPool(ended) ==
    /\ cpc = "ending"
    /\ cpc' = "idle"
    /\ pool' = IF ended THEN "null" ELSE pool
    /\ UNCHANGED <<manager, lastConnect, disconnected, probe>>
    /\ UNCHANGED <<epc, timeoutArg, elapsed, leased, dbResult>>
    /\ UNCHANGED <<validatorVars, rateVars, toolVars, handlerVars>>

\* isConnected()
isConnected == manager = "set" /\ pool # "null"

NextConnection ==
    \/ \E complete \in BOOLEAN, created \in BOOLEAN : InitializeMySQL(complete, created)
    \/ \E created \in BOOLEAN : Reconnect(created)
    \/ \E ok \in BOOLEAN : Ping(ok)
    \/ Disconnect
    \/ \E ended \in BOOLEAN : EndPool(ended)
    \/ (cpc = "idle" /\ \E t \in Timeouts : ExecuteQuery(t))
    \/ \E granted \in BOOLEAN : GetConnection(granted)
    \/ \E db \in DbOutcomes : Answer(db)

SpecConnection == InitConnection /\ [][NextConnection]_vars

----------------------------------------------------------------------------
(* The validator on its own: one call of validate per statement            *)

InitValidator ==
    /\ query \in Statements
    /\ vpc = "start"
    /\ result = NoResult
    /\ canon = <<>>
    /\ RateIdle
    /\ ToolsIdle
    /\ HandlerIdle /\ DbIdle

Validate ==
    /\ vpc = "start"
    /\ result' = validate(query)
    /\ vpc' = "validated"
    /\ UNCHANGED <<query, canon, rateVars, toolVars, handlerVars, dbVars>>

NextValidator == Validate

SpecValidator == InitValidator /\ [][NextValidator]_vars

----------------------------------------------------------------------------
(* sanitizeQuery on its own: canonicalizing a statement again and again    *)

\* Number of successive canonicalizations followed.
MaxPasses == 2

InitSanitize ==
    /\ query \in Statements
    /\ vpc = "start"
    /\ result = NoResult
    /\ canon = <<>>
    /\ RateIdle
    /\ ToolsIdle
    /\ HandlerIdle /\ DbIdle

Canonicalize ==
    /\ Len(canon) < MaxPasses
    /\ canon' = Append(canon, sanitizeQuery(IF canon = <<>> THEN query
                                            ELSE canon[Len(canon)]))
    /\ UNCHANGED <<query, vpc, result, rateVars, toolVars, handlerVars, dbVars>>

NextSanitize == Canonicalize

SpecSanitize == InitSanitize /\ [][NextSanitize]_vars

----------------------------------------------------------------------------
(* Notions the properties are stated with                                  *)

\* Some words of the rule tables, and the scenario statements.
DROP == <<"D","R","O","P">>

SLEEP == <<"S","L","E","E","P">>

DropTableUsers ==
    <<"D","R","O","P"," ","T","A","B","L","E"," ","u","s","e","r","s">>

SelectUsersLimit ==
    <<"S","E","L","E","C","T"," ","*"," ","F","R","O","M"," ","u","s","e","r","s",
      " ","L","I","M","I","T"," ","1","0">>

SelectThenDrop ==
    <<"S","E","L","E","C","T"," ","*"," ","F","R","O","M"," ","u","s","e","r","s",
      ";"," ","D","R","O","P"," ","T","A","B","L","E"," ","u","s","e","r","s">>

SelectSleep ==
    <<"S","E","L","E","C","T"," ","S","L","E","E","P","(","1","0",")">>

Has(errors, reason) == \E i \in 1..Len(errors) : errors[i] = reason

Count(errors, reason) == Cardinality({i \in 1..Len(errors) : errors[i] = reason})

NonEmpty(q) == \E i \in 1..Len(q) : ~IsSpace(q[i])

\* The first whitespace-delimited word of q is kw, in any letter case.
LeadsWith(q, kw) ==
    \E a \in 0..Len(q) :
        /\ \A k \in 1..a : IsSpace(q[k])
        /\ a + Len(kw) <= Len(q)
        /\ \A k \in 1..Len(kw) : UpperChar(q[a + k]) = kw[k]
        /\ (a + Len(kw) = Len(q) \/ IsSpace(q[a + Len(kw) + 1]))

LeadsReadonly(q) == \E kw \in READONLY_KEYWORDS : LeadsWith(q, kw)

LeadsForbidden(q) == \E kw \in FORBIDDEN_KEYWORDS : LeadsWith(q, kw)

\* q calls the function fn: the identifier fn, in any letter case, directly
\* followed by an opening parenthesis.
CallsFunction(q, fn) ==
    \E p \in 1..Len(q) :
        /\ p + Len(fn) <= Len(q)
        /\ \A k \in 1..Len(fn) : UpperChar(q[p + k - 1]) = fn[k]
        /\ (p = 1 \/ ~IsWordChar(q[p - 1]))
        /\ q[p + Len(fn)] = "("

\* A separator stands between two statements of q: text that is neither
\* blank nor a separator occurs on both sides of it.
SeparatesStatements(q) ==
    \E k \in 1..Len(q) :
        /\ q[k] = ";"
        /\ \E i \in 1..(k - 1) : ~IsSpace(q[i]) /\ q[i] # ";"
        /\ \E j \in (k + 1)..Len(q) : ~IsSpace(q[j]) /\ q[j] # ";"

\* q has a separator other than one single separator ending the statement.
SeparatorBeyondSingleTrailing(q) ==
    /\ SeparatorPositions(q) # {}
    /\ SeparatorPositions(q) # {LastNonSpace(q)}

\* q has a FROM clause: the word FROM, in any letter case, after other text.
HasFromClause(q) ==
    \E p \in 2..(Len(q) - 3) :
        /\ \A k \in 1..4 : UpperChar(q[p + k - 1]) = <<"F","R","O","M">>[k]
        /\ IsSpace(q[p - 1])
        /\ (p + 3 = Len(q) \/ IsSpace(q[p + 4]))

\* q has the word w, in any letter case, whitespace or an end of the text on
\* both sides of it.
HasWord(q, w) ==
    \E p \in 1..(Len(q) - Len(w) + 1) :
        /\ \A k \in 1..Len(w) : UpperChar(q[p + k - 1]) = w[k]
        /\ (p = 1 \/ IsSpace(q[p - 1]))
        /\ (p + Len(w) - 1 = Len(q) \/ IsSpace(q[p + Len(w)]))

\* q calls the function fn as the SQL parser may read it: the identifier fn,
\* in any letter case, then an opening parenthesis, whitespace allowed between.
CallsFunctionSpaced(q, fn) ==
    \E p \in 1..Len(q) :
        /\ p + Len(fn) <= Len(q)
        /\ \A k \in 1..Len(fn) : UpperChar(q[p + k - 1]) = fn[k]
        /\ (p = 1 \/ ~IsWordChar(q[p - 1]))
        /\ \E o \in (p + Len(fn))..Len(q) :
              /\ q[o] = "("
              /\ \A k \in (p + Len(fn))..(o - 1) : IsSpace(q[k])

\* The words of q from index i on (its maximal runs of non-whitespace
\* characters, as written), joined by single spaces.
RECURSIVE WordsJoinedFrom(_, _)
WordsJoinedFrom(q, i) ==
    IF \A k \in i..Len(q) : IsSpace(q[k]) THEN <<>>
    ELSE LET b == CHOOSE b \in i..Len(q) :
                     ~IsSpace(q[b]) /\ \A k \in i..(b - 1) : IsSpace(q[k])
             e == CHOOSE e \in b..Len(q) :
                     /\ \A k \in b..e : ~IsSpace(q[k])
                     /\ (e = Len(q) \/ IsSpace(q[e + 1]))
             rest == WordsJoinedFrom(q, e + 1)
         IN  SubSeq(q, b, e) \o (IF rest = <<>> THEN <<>> ELSE <<" ">> \o rest)

WhitespaceNormalized(q) == WordsJoinedFrom(q, 1)

SelectUsersMixed ==
    <<" "," ","s","e","l","e","c","T","\t"," ","*"," "," ","F","r","o","m","\n",
      "U","s","e","r","s"," ","l","i","m","i","t"," ","1","0"," ">>


----------------------------------------------------------------------------
(* Properties of MySQLQueryValidator                                       *)

\* C1: a statement whose first whitespace-delimited keyword, in any letter
\* case, is a forbidden keyword is rejected, and the reasons name that
\* operation, whatever follows the keyword.
C1_ForbiddenKeywordRejected ==
    vpc = "validated" =>
        \A kw \in FORBIDDEN_KEYWORDS :
            LeadsWith(query, kw) =>
                /\ ~result.isValid
                /\ Has(result.errors, OperationReason(kw))

C1_Witness ==
    /\ vpc = "validated"
    /\ query = DropTableUsers
    /\ ~result.isValid
    /\ Has(result.errors, OperationReason(DROP))

\* C2: default deny. For a non-empty statement isReadonly holds exactly when
\* the first keyword is a readonly keyword; a first keyword in neither set is
\* rejected with the must-start-with-a-readonly-operation reason; no statement
\* whose first keyword is outside the readonly set is accepted.
C2_DefaultDeny ==
    (vpc = "validated" /\ NonEmpty(query)) =>
        /\ result.isReadonly <=> LeadsReadonly(query)
        /\ (~LeadsReadonly(query) /\ ~LeadsForbidden(query)) =>
              (~result.isValid /\ Has(result.errors, NotReadonlyReason))
        /\ ~LeadsReadonly(query) => ~result.isValid

C2_Witness ==
    /\ vpc = "validated"
    /\ query = <<"x", " ", "1">>
    /\ ~result.isReadonly
    /\ result.errors = <<NotReadonlyReason>>

\* C3 as stated: a statement with a separator anywhere other than as a single
\* trailing occurrence is rejected with the multiple-statements reason.
C3_AnySeparatorIsMultiple ==
    (vpc = "validated" /\ SeparatorBeyondSingleTrailing(query)) =>
        Has(result.errors, MultipleReason)

\* C3 amended: the multiple-statements reason is given exactly when a
\* separator stands between two non-blank statements; leading or repeated
\* separators around one statement do not give it, but every statement with
\* a separator is rejected with the injection-pattern reason.
C3_MultipleIffTwoStatements ==
    (vpc = "validated" /\ NonEmpty(query)) =>
        /\ Has(result.errors, MultipleReason) <=> SeparatesStatements(query)
        /\ SeparatorPositions(query) # {} =>
              (~result.isValid /\ Has(result.errors, InjectionReason))

C3_Witness ==
    /\ vpc = "validated"
    /\ query = <<"x", ";", ";">>
    /\ ~Has(result.errors, MultipleReason)
    /\ Has(result.errors, InjectionReason)

\* C7: a statement that calls a function of the dangerous-function set, in
\* any letter case, is rejected with a reason naming the function, also when
\* its first keyword is readonly.
C7_DangerousFunctionRejected ==
    vpc = "validated" =>
        \A i \in 1..Len(DANGEROUS_FUNCTIONS) :
            CallsFunction(query, DANGEROUS_FUNCTIONS[i]) =>
                /\ ~result.isValid
                /\ Has(result.errors, FunctionReason(DANGEROUS_FUNCTIONS[i]))

C7_Witness ==
    /\ vpc = "validated"
    /\ query = SelectSleep
    /\ result.isReadonly
    /\ ~result.isValid
    /\ Has(result.errors, FunctionReason(SLEEP))

\* C9: violations accumulate. For a non-empty statement the reasons hold one
\* entry for each rule that fails and none for a rule that passes; a failure
\* of one rule never hides the failure of another.
C9_ViolationsAccumulate ==
    (vpc = "validated" /\ NonEmpty(query)) =>
        LET errors == result.errors
            One(fails, reason) == Count(errors, reason) = (IF fails THEN 1 ELSE 0)
        IN  /\ One(containsSQLInjectionPatterns(query), InjectionReason)
            /\ \A kw \in FORBIDDEN_KEYWORDS :
                  One(LeadsWith(query, kw), OperationReason(kw))
            /\ One(~LeadsReadonly(query) /\ ~LeadsForbidden(query), NotReadonlyReason)
            /\ \A i \in 1..Len(DANGEROUS_FUNCTIONS) :
                  One(MatchesFunctionCall(query, DANGEROUS_FUNCTIONS[i]),
                      FunctionReason(DANGEROUS_FUNCTIONS[i]))
            /\ One(containsMultipleStatements(query), MultipleReason)
            /\ One(LeadsReadonly(query)
                     /\ ~hasValidSelectStructure(toUpperCase(trim(query))),
                   StructureReason)
            /\ query = SelectThenDrop =>
                  (Has(errors, MultipleReason) /\ Has(errors, InjectionReason))

C9_Witness ==
    /\ vpc = "validated"
    /\ query = SelectThenDrop
    /\ result.errors = <<InjectionReason, MultipleReason>>

\* C10: the verdict is valid exactly when it has no reasons, and it carries
\* canonical text exactly when it is valid; the verdict for an empty
\* statement is a rejection without canonical text.
C10_ValidIffNoReasons ==
    vpc = "validated" =>
        /\ result.isValid <=> (result.errors = <<>>)
        /\ (result.sanitizedQuery # Undefined) <=> result.isValid
        /\ ~NonEmpty(query) =>
              (~result.isValid /\ result.errors = <<EmptyReason>>)

C10_Witness ==
    /\ vpc = "validated"
    /\ query = SelectUsersLimit
    /\ result.isValid
    /\ result.sanitizedQuery = SelectUsersLimit

\* C11: a single SELECT statement with a FROM clause, without injection
\* indicators and without a call of a dangerous function, in any letter case
\* and with any whitespace runs, is accepted as readonly, and its canonical
\* text is the statement with leading and trailing whitespace removed and
\* every whitespace run made one space, the letters as they were written.
C11_PlainSelectAccepted ==
    (/\ vpc = "validated"
     /\ LeadsWith(query, <<"S","E","L","E","C","T">>)
     /\ HasFromClause(query)
     /\ ~containsSQLInjectionPatterns(query)
     /\ \A i \in 1..Len(DANGEROUS_FUNCTIONS) :
           ~CallsFunctionSpaced(query, DANGEROUS_FUNCTIONS[i])) =>
        /\ result.isValid
        /\ result.isReadonly
        /\ result.errors = <<>>
        /\ result.sanitizedQuery = WhitespaceNormalized(query)

C11_Witness ==
    /\ vpc = "validated"
    /\ query = SelectUsersMixed
    /\ result.isValid
    /\ result.isReadonly
    /\ result.sanitizedQuery =
          <<"s","e","l","e","c","T"," ","*"," ","F","r","o","m"," ",
            "U","s","e","r","s"," ","l","i","m","i","t"," ","1","0">>

\* C22: a dangerous function name gives a rejection reason only when an
\* opening parenthesis follows it immediately: a statement with the name as a
\* bare identifier, inside a longer identifier, or with whitespace between
\* the name and the parenthesis gets no reason for that function.
C22_ReasonOnlyIfImmediatelyCalled ==
    vpc = "validated" =>
        \A i \in 1..Len(DANGEROUS_FUNCTIONS) :
            Has(result.errors, FunctionReason(DANGEROUS_FUNCTIONS[i])) =>
                CallsFunction(query, DANGEROUS_FUNCTIONS[i])

\* C22 amended: a dangerous function name gives a rejection reason only when
\* an opening parenthesis follows it, whitespace allowed between the two; as a
\* bare identifier or inside a longer identifier it gives none.
C22_ReasonOnlyIfCalled ==
    vpc = "validated" =>
        \A i \in 1..Len(DANGEROUS_FUNCTIONS) :
            Has(result.errors, FunctionReason(DANGEROUS_FUNCTIONS[i])) =>
                CallsFunctionSpaced(query, DANGEROUS_FUNCTIONS[i])

\* SLEEP inside the identifier xSLEEP, a parenthesis after it: no reason
\* names a function.
C22_Witness ==
    /\ vpc = "validated"
    /\ query = <<"S","E","L","E","C","T"," ","x","S","L","E","E","P","(">>
    /\ \A i \in 1..Len(DANGEROUS_FUNCTIONS) :
           ~Has(result.errors, FunctionReason(DANGEROUS_FUNCTIONS[i]))

\* C23: a statement whose first keyword is SELECT, that has no FROM clause,
\* does not name the DUAL pseudo-table and is not a simple expression, is
\* rejected with the reason 'Invalid SELECT query structure'; a word that
\* only contains the letters FROM or DUAL is no FROM clause and no DUAL.
C23_SelectShapeChecked ==
    (/\ vpc = "validated"
     /\ LeadsWith(query, <<"S","E","L","E","C","T">>)
     /\ ~HasFromClause(query)
     /\ ~HasWord(query, <<"D","U","A","L">>)
     /\ ~isSimpleExpression(trim(query))) =>
        (~result.isValid /\ Has(result.errors, StructureReason))

----------------------------------------------------------------------------
(* Properties of sanitizeQuery                                             *)

\* C4: canonicalization is idempotent: canonicalizing the canonical text of
\* any statement gives that text again.
C4_CanonicalizationIdempotent ==
    Len(canon) >= 2 => canon[2] = canon[1]

----------------------------------------------------------------------------
(* Properties of the rate limiter                                          *)

\* C6: with at most 10 requests per window of 60 s for each address, the
\* first 10 requests of an address within one window are admitted and the
\* 11th and every later one in that window is rejected; the first request
\* after the window is over is admitted, and leaves the address with a count
\* of 1 and a fresh window.
C6_RateLimitWindow ==
    /\ maxRequests = 10 /\ windowMs = 60000
    /\ lastCheck.ip \in IPs =>
          (lastCheck.ok <=> requestsInWindow[lastCheck.ip] <= 10)
    /\ \A ip \in IPs :
          requestsInWindow[ip] > 0 =>
              /\ ip \in DOMAIN rateLimitStore
              /\ rateLimitStore[ip].count =
                    (IF requestsInWindow[ip] <= 10 THEN requestsInWindow[ip] ELSE 10)
              /\ rateLimitStore[ip].resetTime = windowOpened[ip] + 60000

\* The 11th request of a window has been rejected, and later, the window
\* over, a request of the same address is admitted with a count of 1.
C6_Witness ==
    /\ lastCheck.ip \in IPs
    /\ lastCheck.ok
    /\ windowOpened[lastCheck.ip] > 60000
    /\ requestsInWindow[lastCheck.ip] = 1
    /\ rateLimitStore[lastCheck.ip].count = 1
    /\ \E other \in IPs : requestsInWindow[other] = 11 /\ rateLimitStore[other].count = 10

\* The requests of address ip admitted from instant t up to, and not
\* including, instant t + windowMs.
RECURSIVE AdmittedAmong(_, _)
AdmittedAmong(ip, instants) ==
    IF instants = {} THEN 0
    ELSE LET u == CHOOSE x \in instants : TRUE
         IN  admittedAt[ip][u] + AdmittedAmong(ip, instants \ {u})

AdmittedWithin(ip, t) ==
    AdmittedAmong(ip, {u \in Instants : t <= u /\ u < t + windowMs})

\* C21: for every address and every interval of 60 seconds, whether or not
\* it starts where a window of the limiter starts, at most 10 requests of
\* the address are admitted within the interval.
C21_AtMostTenInAnyInterval ==
    \A ip \in DOMAIN admittedAt :
        \A t \in Instants : AdmittedWithin(ip, t) <= maxRequests

\* The entry of address ip is the same in both stores, or in neither.
SameEntry(before, after, ip) ==
    /\ ip \in DOMAIN before <=> ip \in DOMAIN after
    /\ ip \in DOMAIN before => before[ip] = after[ip]

\* C27: a checkRateLimit call that rejects leaves the whole store as it was,
\* count and resetTime of the caller included, so that rejections do not
\* extend the window; and every call, admitted or not, leaves the entries
\* of all other addresses as they were.
C27_RateLimiterFrame ==
    [][now' = now =>
          /\ ~lastCheck'.ok => rateLimitStore' = rateLimitStore
          /\ \A other \in IPs \ {lastCheck'.ip} :
                 SameEntry(rateLimitStore, rateLimitStore', other)]_vars

\* A request is rejected after the window of its address was opened, the
\* reset time still the one set at the opening, while another address has a
\* window of its own.
C27_Witness ==
    /\ lastCheck.ip \in IPs
    /\ ~lastCheck.ok
    /\ now > windowOpened[lastCheck.ip]
    /\ rateLimitStore[lastCheck.ip] =
           [count |-> maxRequests, resetTime |-> windowOpened[lastCheck.ip] + windowMs]
    /\ \E other \in IPs \ {lastCheck.ip} :
           /\ other \in DOMAIN rateLimitStore
           /\ rateLimitStore[other].count < maxRequests

----------------------------------------------------------------------------
(* Properties of queryMySQL                                                *)

Called == tpc = "done"

Min(a, b) == IF a < b THEN a ELSE b

\* C5: an accepted request with n raw rows and limit L is answered with
\* min(n, L) rows, and is flagged truncated exactly when n > L.
C5_TruncatedIffMoreThanLimit ==
    (Called /\ response.success) =>
        /\ Len(response.results) = Min(Len(rawRows), response.limit)
        /\ response.truncated <=> (Len(rawRows) > response.limit)

\* C8: a request whose limit is outside [1, 1000] is rejected by the input
\* validator, whose verdict names the limit; the limit is not clamped, and
\* neither the statement classifier nor the database is invoked for it.
C8_LimitOutOfRangeRejected ==
    (Called /\ args.limit.kind = "number"
            /\ (args.limit.val < 1 \/ args.limit.val > 1000)) =>
        /\ ~inputVerdict.isValid
        /\ \E i \in 1..Len(inputVerdict.errors) :
              inputVerdict.errors[i] \in
                  {"Limit must be at least 1", "Limit cannot exceed 1000"}
        /\ ~response.success
        /\ trace = <<"InputValidator">>
        /\ rawRows = <<>>
        /\ (args.query.kind = "string" /\ env.sink[1]) =>
              /\ response.error = "Input validation failed"
              /\ response.reasons = inputVerdict.errors

C8_Witness ==
    /\ Called
    /\ args.limit = Num(5000)
    /\ args.query.kind = "string"
    /\ validate(args.query.text).isValid
    /\ response.error = "Input validation failed"
    /\ response.reasons = <<"Limit cannot exceed 1000">>
    /\ trace = <<"InputValidator">>

----------------------------------------------------------------------------
(* Properties of the public handlers                                       *)

\* In the stages done, stage a comes before stage b whenever both were done.
Before(stages, a, b) ==
    \A i, j \in 1..Len(stages) : (stages[i] = a /\ stages[j] = b) => i < j

Did(stages, a) == \E i \in 1..Len(stages) : stages[i] = a

\* The stages done for the request answered last and for the requests at
\* the database.
StagesDone == {reply.trace} \cup {inflight[s].trace : s \in Slots}

\* The responses to a query_database call whose arguments are malformed.
MalformedArguments ==
    {"Query parameter is required and must be a string",
     "Query parameter is required", "query.trim is not a function"}

\* C12: the stages of a request run in the order input validation, admission
\* gate, statement check, execution, result bounding; the limiter is reached
\* only after the input has passed validation, so that a request with
\* malformed input leaves the caller's window untouched.
C12_InputValidatedBeforeAdmission ==
    /\ \A stages \in StagesDone :
          /\ Before(stages, "argumentsCheck", "checkRateLimit")
          /\ Before(stages, "checkRateLimit", "allowedPatterns")
          /\ Before(stages, "allowedPatterns", "connect")
          /\ Before(stages, "connect", "execute")
          /\ Before(stages, "execute", "slice")
    /\ reply.error \in MalformedArguments => ~Did(reply.trace, "checkRateLimit")

\* C13: a request that the limiter rejects is answered 429 with a retry
\* hint, and nothing else is done for it: no authentication, no validation,
\* no database access.
C13_RateExceededOutcome ==
    [][(requestsInWindow' # requestsInWindow /\ ~lastCheck'.ok) =>
          /\ reply'.status = 429
          /\ reply'.retryAfter # Absent
          /\ reply'.trace = <<"checkRateLimit">>
          /\ reply'.opened = 0
          /\ inflight' = inflight]_vars

\* C19: whatever limit the caller of query_database gives, the response of
\* a public handler holds at most 100 rows.
C19_PublicResultCeiling ==
    /\ Len(reply.results) <= 100
    /\ \A s \in Slots : Len(inflight[s].results) <= 100

\* C20: requests of one address that are served at the same time lose no
\* update of its counter: when k requests of the address have come in within
\* its window, the stored count is min(k, maxRequests), and min(k, maxRequests)
\* of them have been admitted.
C20_NoLostUpdate ==
    \A ip \in IPs :
        requestsInWindow[ip] > 0 =>
            /\ ip \in DOMAIN rateLimitStore
            /\ rateLimitStore[ip].count = Min(requestsInWindow[ip], maxRequests)
            /\ admittedInWindow[ip] = Min(requestsInWindow[ip], maxRequests)

\* Two admitted requests of the address are at the database, at different
\* points of their work, while later requests of the address have been
\* counted and the ones beyond the tenth rejected.
C20_Witness ==
    \E ip \in IPs :
        /\ \A s \in Slots : inflight[s].pc # "idle" /\ inflight[s].ip = ip
        /\ \E s, t \in Slots : inflight[s].pc # inflight[t].pc
        /\ requestsInWindow[ip] > maxRequests
        /\ admittedInWindow[ip] = maxRequests
        /\ rateLimitStore[ip].count = maxRequests
        /\ ~lastCheck.ok

----------------------------------------------------------------------------
(* Properties of MySQLDatabase.executeQuery                                *)

\* C14: a call of executeQuery that has waited for the database as long as
\* its timeout eventually completes; it does not stay pending for ever while
\* the database is silent.
C14_TimeoutEndsTheCall ==
    (Pending /\ elapsed >= timeoutArg) ~> ~Pending

----------------------------------------------------------------------------
(* Properties of queryMySQL under a failing sink and malformed arguments   *)

\* C15: the outcome of a queryMySQL call, that is whether the request is
\* accepted, the rows it returns, and that it returns a response rather than
\* throwing, is the same whether the calls to the logging sink return or throw.
C15_OutcomeIndependentOfLogging ==
    Called =>
        LET quiet == queryMySQL(args, env.db, SinkWorks).response IN
        /\ response.success = quiet.success
        /\ response.results = quiet.results
        /\ response.threw = quiet.threw

InRange(x, lo, hi) == x \in lo..hi

\* C16: whatever the payload, an undefined one and one without a query
\* included, validateMySQLQuery answers isValid only if the payload has a
\* query that is a string of 1 to 10000 characters without < > { }, and its
\* data has an integer limit in [1, 1000], 100 when none was given, and an
\* integer timeout in [1000, 30000], 30000 when none was given.
C16_ValidOnlyWithinSchema ==
    (Called /\ inputVerdict.isValid) =>
        /\ args.shape = "object"
        /\ args.query.kind = "string"
        /\ InRange(Len(args.query.text), 1, 10000)
        /\ \A i \in 1..Len(args.query.text) :
               args.query.text[i] \notin {"<", ">", "{", "}"}
        /\ InRange(inputVerdict.data.limit, 1, 1000)
        /\ args.limit.kind = "absent" => inputVerdict.data.limit = 100
        /\ InRange(inputVerdict.data.timeout, 1000, 30000)
        /\ args.timeout.kind = "absent" => inputVerdict.data.timeout = 30000

\* The reason m if the constraint it reports is broken.
When(broken, m) == IF broken THEN {m} ELSE {}

\* The constraints of the schema that a number x given for key breaks, each
\* by the reason that reports it.
NumberViolations(x, key, lo, hi, tooSmall, tooLarge) ==
    IF x.kind = "absent" THEN {}
    ELSE IF x.kind \notin {"number", "half"}
    THEN {"\"" \o key \o "\" must be a number"}
    ELSE When(x.kind = "half", "\"" \o key \o "\" must be an integer")
         \cup When(x.val < lo, tooSmall)
         \cup When(x.val > hi \/ (x.kind = "half" /\ x.val = hi), tooLarge)

\* The constraints that the object a breaks.
ViolatedConstraints(a) ==
    (IF a.query.kind = "absent" THEN {"\"query\" is required"}
     ELSE IF a.query.kind # "string" THEN {"\"query\" must be a string"}
     ELSE IF a.query.text = <<>> THEN {"Query cannot be empty"}
     ELSE When(Len(a.query.text) > 10000, "Query too long (max 10000 characters)")
          \cup When(\E i \in 1..Len(a.query.text) :
                        a.query.text[i] \in {"<", ">", "{", "}"},
                    "Query contains invalid characters"))
    \cup NumberViolations(a.limit, "limit", 1, 1000,
                          "Limit must be at least 1", "Limit cannot exceed 1000")
    \cup NumberViolations(a.timeout, "timeout", 1000, 30000,
                          "Timeout must be at least 1000ms",
                          "Timeout cannot exceed 30000ms")

\* C17: for an object that breaks several constraints at once, the verdict
\* of validateMySQLQuery lists a reason for every constraint broken, and no
\* other reason: it is invalid exactly when some constraint is broken.
C17_EveryViolationListed ==
    (Called /\ args.shape = "object") =>
        /\ {inputVerdict.errors[i] : i \in 1..Len(inputVerdict.errors)}
               = ViolatedConstraints(args)
        /\ Len(inputVerdict.errors) = Cardinality(ViolatedConstraints(args))
        /\ inputVerdict.isValid <=> ViolatedConstraints(args) = {}

\* The query is too long and holds a refused character, the limit is above
\* its range and the timeout below its own: four reasons.
C17_Witness ==
    /\ Called
    /\ args.query = Str(LongText)
    /\ args.limit = Num(5000)
    /\ args.timeout = Num(999)
    /\ inputVerdict.errors = <<"Query too long (max 10000 characters)",
                               "Query contains invalid characters",
                               "Limit cannot exceed 1000",
                               "Timeout must be at least 1000ms">>

\* Arguments that are no object, or whose query is missing or no string, or
\* whose limit or timeout is of a wrong type.
Malformed(a) ==
    \/ a.shape # "object"
    \/ a.query.kind # "string"
    \/ a.limit.kind \notin {"absent", "number", "half"}
    \/ a.timeout.kind \notin {"absent", "number", "half"}

\* C18: with a logging sink that works, queryMySQL given malformed arguments
\* does not throw, and answers a failure of input validation, not a failure
\* of execution.
C18_MalformedReportedAsInputFailure ==
    (Called /\ env.sink = SinkWorks /\ Malformed(args)) =>
        /\ ~response.threw
        /\ ~response.success
        /\ response.error = "Input validation failed"

\* C24: queryMySQL hands a text to the database only if the payload passed
\* input validation and the text is the sanitizedQuery of a verdict of the
\* statement classifier that is valid and readonly; a request rejected at
\* any stage has no text handed to the database.
C24_OnlySanitizedTextExecuted ==
    Called =>
        /\ Len(executed) <= 1
        /\ executed # <<>> =>
              /\ args.shape = "object"
              /\ args.query.kind = "string"
              /\ inputVerdict.isValid
              /\ validate(args.query.text).isValid
              /\ validate(args.query.text).isReadonly
              /\ executed[1] = validate(args.query.text).sanitizedQuery
              /\ executed[1] = WhitespaceNormalized(args.query.text)
        /\ response.error \in {"Input validation failed", "Query validation failed",
                               "Only readonly queries are allowed"}
              => executed = <<>>
        /\ (~inputVerdict.isValid \/ args.shape # "object") => executed = <<>>

\* A statement written with a run of spaces was executed in its canonical
\* form.
C24_Witness ==
    /\ Called
    /\ args.query = Str(<<"S","E","L","E","C","T"," "," ","1"," ">>)
    /\ executed = << <<"S","E","L","E","C","T"," ","1">> >>
    /\ response.success

----------------------------------------------------------------------------
(* Properties of the classifier as queryMySQL uses it                      *)

\* The arguments of a call that gives the statement q and nothing else.
QueryOnly(q) == [NoFields("object") EXCEPT !.query = Str(q)]

\* C25: a result of validate that is valid is readonly; so queryMySQL never
\* answers 'Only readonly queries are allowed'.
C25_ValidImpliesReadonly ==
    vpc = "validated" =>
        /\ result.isValid => result.isReadonly
        /\ queryMySQL(QueryOnly(query), [kind |-> "rows", rows |-> <<>>],
                      SinkWorks).response.error
              # "Only readonly queries are allowed"

\* A statement that is valid, and readonly.
C25_Witness ==
    /\ vpc = "validated"
    /\ query = <<"S","E","L","E","C","T"," ","1">>
    /\ result.isValid
    /\ result.isReadonly
    /\ queryMySQL(QueryOnly(query), [kind |-> "rows", rows |-> <<>>],
                  SinkWorks).response.success

\* C26: a statement that validate accepts has no ; no single quote and none
\* of -- # /* */, so a statement with one trailing ; is rejected too; and
\* the sanitizedQuery of an accepted statement is the statement trimmed with
\* its whitespace runs collapsed, the strip of trailing separators finding
\* nothing to strip.
C26_AcceptedHasNoSeparator ==
    (vpc = "validated" /\ result.isValid) =>
        /\ \A w \in {<<";">>, <<"'">>, <<"-","-">>, <<"#">>, <<"/","*">>, <<"*","/">>} :
               ~includes(query, w)
        /\ result.sanitizedQuery = WhitespaceNormalized(query)
        /\ stripTrailingSeparators(collapseWhitespace(trim(query)))
               = collapseWhitespace(trim(query))

\* An accepted statement with whitespace runs: its sanitizedQuery is the
\* statement trimmed and collapsed.
C26_Witness ==
    /\ vpc = "validated"
    /\ query = <<"S","E","L","E","C","T"," "," ","1","\t">>
    /\ result.isValid
    /\ result.sanitizedQuery = <<"S","E","L","E","C","T"," ","1">>

----------------------------------------------------------------------------
(* Properties of the database connection                                   *)

\* C28: after any sequence of connect, disconnect and initializeMySQL calls,
\* isConnected() is true only if the latest connect() succeeded and
\* disconnect() has not been called since; after a connect() that failed, at
\* the creation of the pool or at the ping, isConnected() is false and
\* executeQuery fails with 'Database not connected'.
C28_ConnectedOnlyAfterSuccess ==
    cpc = "idle" =>
        /\ isConnected => (lastConnect = "succeeded" /\ ~disconnected)
        /\ lastConnect = "failed" => ~isConnected
        /\ (lastConnect = "failed" /\ probe # "none") =>
              probe = "Database not connected"

\* C29: every database connection opened while serving a request is closed
\* or released exactly once by the time the request completes, whether the
\* database operation succeeds or fails: on the health, health_check and
\* query_database paths of the connector handler, and in executeQuery.
C29_EveryConnectionClosedOnce ==
    /\ (deployment = "connector" /\ reply # NoReply) =>
          reply.closed = reply.opened
    /\ epc \in {"returned", "thrown"} => leased = 0

----------------------------------------------------------------------------
(* Properties of the whitelist of the public handlers                      *)

\* The keyword w stands in q, as a word of its own, after the first character.
HasKeywordAfterFirst(q, w) ==
    \E p \in 2..(Len(q) - Len(w) + 1) :
        /\ \A k \in 1..Len(w) : UpperChar(q[p + k - 1]) = w[k]
        /\ ~IsWordChar(q[p - 1])
        /\ (p + Len(w) - 1 = Len(q) \/ ~IsWordChar(q[p + Len(w)]))

\* q is a single readonly statement: no statement separator, and no DROP or
\* DELETE after its first keyword.
SingleReadonlyStatement(q) ==
    /\ ~includes(q, <<";">>)
    /\ ~HasKeywordAfterFirst(q, <<"D","R","O","P">>)
    /\ ~HasKeywordAfterFirst(q, <<"D","E","L","E","T","E">>)

\* C30: executeSafeQuery of the public handlers sends a query to the database
\* only if it is a single readonly statement: no text with a separator ';' or
\* a forbidden keyword such as DROP or DELETE after its first keyword passes
\* the whitelist of allowed patterns.
C30_OnlySingleReadonlySent ==
    \A s \in Slots :
        (inflight[s].path = "query_database"
            /\ inflight[s].pc \in {"executing", "closing"}) =>
           SingleReadonlyStatement(inflight[s].request.query.text)

====
